---- MODULE Spec2Model ----
(***************************************************************************)
(* Model of the Human Formatter (hformat): the tokenizer (tokenizer.py),   *)
(* the placeholder handler (placeholder.py) and the parse/convert engine   *)
(* with its function catalog (hformat/hformat.py).                         *)
(*                                                                         *)
(* A Python str is a sequence of one-character strings.  None is the       *)
(* value NoneVal.  A call that may raise returns a record whose field exc  *)
(* is "None" or the name of the exception type.                            *)
(***************************************************************************)
EXTENDS Integers, Sequences, FiniteSets, TLC

\* ------------------------------------------------------------------------
\* Bounds of the model
\* ------------------------------------------------------------------------
\* Longest template enumerated over TemplateChars.
MaxLen == 3
\* format() calls made on one HumanFormatter instance.
MaxCalls == 2
\* Arguments given to a FunctionObject that is constructed directly.
MaxArgs == 4
\* Markers made by one PlaceholderHandler that is used directly.
MaxMarkers == 60
\* Escaped characters or quoted substrings in one string given to it.
MaxRun == 5

\* ------------------------------------------------------------------------
\* Python str primitives
\* ------------------------------------------------------------------------
NoneVal == <<"None">>

Whitespace == {" ", "\t", "\n"}
Digits == <<"0", "1", "2", "3", "4", "5", "6", "7", "8", "9">>
DigitSet == {Digits[i] : i \in 1..Len(Digits)}
Letters == {"a", "b", "c", "d", "e", "f", "g", "h", "i", "j", "k", "l", "m",
            "n", "o", "p", "q", "r", "s", "t", "u", "v", "w", "x", "y", "z",
            "A", "B", "C", "D", "E", "F", "G", "H", "I", "J", "K", "L", "M",
            "N", "O", "P", "Q", "R", "S", "T", "U", "V", "W", "X", "Y", "Z"}

Min(a, b) == IF a <= b THEN a ELSE b
Max(a, b) == IF a >= b THEN a ELSE b

\* s[i:] and s[:n] with Python's treatment of negative and large indices.
PySliceTo(s, n) ==
    IF n >= 0 THEN SubSeq(s, 1, Min(n, Len(s)))
    ELSE SubSeq(s, 1, Max(Len(s) + n, 0))

PySliceFrom(s, n) ==
    IF n >= 0 THEN SubSeq(s, Min(n, Len(s)) + 1, Len(s))
    ELSE SubSeq(s, Max(Len(s) + n, 0) + 1, Len(s))

StartsWithAt(s, sub, i) ==
    /\ i + Len(sub) - 1 <= Len(s)
    /\ \A k \in 1..Len(sub) : s[i + k - 1] = sub[k]

\* 1-based position of the first occurrence of sub in s at or after i; 0 if none.
RECURSIVE FindFrom(_, _, _)
FindFrom(s, sub, i) ==
    IF i + Len(sub) - 1 > Len(s) THEN 0
    ELSE IF StartsWithAt(s, sub, i) THEN i
    ELSE FindFrom(s, sub, i + 1)

\* sub in s
StrIn(sub, s) == FindFrom(s, sub, 1) # 0

\* s.count(c) for a one-character c
RECURSIVE StrCount(_, _)
StrCount(s, c) ==
    IF s = <<>> THEN 0
    ELSE (IF Head(s) = c THEN 1 ELSE 0) + StrCount(Tail(s), c)

\* s.replace(old, new, count) for a non-empty old; count < 0 replaces all.
RECURSIVE StrReplace(_, _, _, _)
StrReplace(s, old, new, count) ==
    IF count = 0 \/ old = <<>> THEN s
    ELSE LET p == FindFrom(s, old, 1)
         IN  IF p = 0 THEN s
             ELSE SubSeq(s, 1, p - 1) \o new
                  \o StrReplace(SubSeq(s, p + Len(old), Len(s)), old, new,
                                count - 1)

StrReplaceAll(s, old, new) == StrReplace(s, old, new, -1)

\* s.split(c) for a one-character separator: a sequence of strs.
RECURSIVE StrSplit(_, _)
StrSplit(s, c) ==
    LET p == FindFrom(s, <<c>>, 1)
    IN  IF p = 0 THEN <<s>>
        ELSE <<SubSeq(s, 1, p - 1)>> \o StrSplit(SubSeq(s, p + 1, Len(s)), c)

RECURSIVE LStrip(_)
LStrip(s) ==
    IF s # <<>> /\ Head(s) \in Whitespace THEN LStrip(Tail(s)) ELSE s

RECURSIVE RStrip(_)
RStrip(s) ==
    IF s # <<>> /\ s[Len(s)] \in Whitespace
    THEN RStrip(SubSeq(s, 1, Len(s) - 1)) ELSE s

\* s.strip()
StrStrip(s) == RStrip(LStrip(s))

\* s.isnumeric(), for the ASCII characters of the model
IsNumeric(s) == s # <<>> /\ \A i \in 1..Len(s) : s[i] \in DigitSet

DigitValue(c) == CHOOSE d \in 0..9 : Digits[d + 1] = c

\* int(s) for a str of decimal digits
RECURSIVE DigitsToInt(_)
DigitsToInt(s) ==
    IF s = <<>> THEN 0
    ELSE 10 * DigitsToInt(SubSeq(s, 1, Len(s) - 1)) + DigitValue(s[Len(s)])

\* str(n) for n >= 0
RECURSIVE IntToStr(_)
IntToStr(n) ==
    IF n < 10 THEN <<Digits[n + 1]>>
    ELSE IntToStr(n \div 10) \o <<Digits[(n % 10) + 1]>>

\* int(t) for a stripped t: one sign is accepted.
IntOfBody(neg, body) ==
    IF IsNumeric(body)
    THEN [exc |-> "None",
          val |-> IF neg THEN 0 - DigitsToInt(body) ELSE DigitsToInt(body)]
    ELSE [exc |-> "ValueError", val |-> 0]

IntOfStripped(t) ==
    IntOfBody(t # <<>> /\ Head(t) = "-",
              IF t # <<>> /\ Head(t) \in {"+", "-"} THEN Tail(t) ELSE t)

\* int(s): surrounding whitespace and one sign are accepted.
PyInt(s) == IntOfStripped(StrStrip(s))

\* ------------------------------------------------------------------------
\* tokenizer.py
\* ------------------------------------------------------------------------
\* The message templates.  The text between the braces is kept in chunks;
\* every brace character is an element of its own.
ERR_MISSING_OPENING_KEY ==
    <<"HFormat Token Error: Closing key '", "}", "' found without",
      " opening key '", "{", "' at position ", "{", "}", ".">>

\* msg.format(arg) of Python's str: "{{" and "}}" are literal braces, "{}"
\* is the next positional argument, a "}" with no open field is an error.
RECURSIVE PyStrFormat(_, _, _)
PyStrFormat(msg, arg, used) ==
    IF msg = <<>> THEN [exc |-> "None", val |-> <<>>]
    ELSE IF Head(msg) = "}"
    THEN IF Len(msg) >= 2 /\ msg[2] = "}"
         THEN LET rest == PyStrFormat(SubSeq(msg, 3, Len(msg)), arg, used)
              IN  [exc |-> rest.exc, val |-> <<"}">> \o rest.val]
         ELSE [exc |-> "ValueError", val |-> <<>>]
    ELSE IF Head(msg) = "{"
    THEN IF Len(msg) >= 2 /\ msg[2] = "{"
         THEN LET rest == PyStrFormat(SubSeq(msg, 3, Len(msg)), arg, used)
              IN  [exc |-> rest.exc, val |-> <<"{">> \o rest.val]
         ELSE LET close == FindFrom(msg, <<"}">>, 2)
              IN  IF close = 0 THEN [exc |-> "ValueError", val |-> <<>>]
                  ELSE IF close # 2 THEN [exc |-> "KeyError", val |-> <<>>]
                  ELSE IF used THEN [exc |-> "IndexError", val |-> <<>>]
                  ELSE LET rest == PyStrFormat(SubSeq(msg, 3, Len(msg)),
                                               arg, TRUE)
                       IN  [exc |-> rest.exc, val |-> arg \o rest.val]
    ELSE LET rest == PyStrFormat(Tail(msg), arg, used)
         IN  [exc |-> rest.exc, val |-> <<Head(msg)>> \o rest.val]

\* raise SyntaxError(ERR_MISSING_OPENING_KEY.format(i)): the exception that
\* leaves the raise statement, with the position it carries (-1: none).
RaiseMissingOpeningKey(i) ==
    LET m == PyStrFormat(ERR_MISSING_OPENING_KEY, IntToStr(i), FALSE)
    IN  IF m.exc # "None"
        THEN [exc |-> m.exc, pos |-> -1]
        ELSE [exc |-> "SyntaxError", pos |-> i]

\* The scan of Token.__init__: i is the 1-based index of the character read,
\* the stack holds Python's 0-based positions of the open '{'.
RECURSIVE ScanBraces(_, _, _, _)
\* The scan without if len(stack) == 0: every pair that closes is a child
ScanBracesAnyPair(token, i, stack, raw_childs) ==
    IF i > Len(token)
    THEN [exc |-> "None", pos |-> -1, raw_childs |-> raw_childs]
    ELSE IF token[i] = "{"
    THEN ScanBraces(token, i + 1, Append(stack, i - 1), raw_childs)
    ELSE IF token[i] = "}"
    THEN IF stack # <<>>
         THEN ScanBraces(token, i + 1, SubSeq(stack, 1, Len(stack) - 1),
                         Append(raw_childs,
                                SubSeq(token, stack[Len(stack)] + 2, i - 1)))
         ELSE [exc |-> RaiseMissingOpeningKey(i - 1).exc,
               pos |-> RaiseMissingOpeningKey(i - 1).pos, raw_childs |-> <<>>]
    ELSE ScanBraces(token, i + 1, stack, raw_childs)
ScanBraces(token, i, stack, raw_childs) ==
    IF i > Len(token)
    THEN [exc |-> "None", pos |-> -1, raw_childs |-> raw_childs]
    ELSE IF token[i] = "{"
    THEN ScanBraces(token, i + 1, Append(stack, i - 1), raw_childs)
    ELSE IF token[i] = "}"
    THEN IF stack # <<>>
         THEN LET start == stack[Len(stack)]
                  popped == SubSeq(stack, 1, Len(stack) - 1)
              IN  ScanBraces(token, i + 1, popped,
                             IF Len(popped) = 0
                             THEN Append(raw_childs,
                                         SubSeq(token, start + 2, i - 1))
                             ELSE raw_childs)
         ELSE LET r == RaiseMissingOpeningKey(i - 1)
              IN  [exc |-> r.exc, pos |-> r.pos, raw_childs |-> <<>>]
    ELSE ScanBraces(token, i + 1, stack, raw_childs)

\* Token(token, gen): the nodes of the tree below (and with) this token, in
\* the order the constructors run.  A node's id is its place in the root's
\* sequence; parent 0 is None.
RECURSIVE TokenInit(_, _, _, _)
RECURSIVE TokenChilds(_, _, _, _)
\* self.childs = list(): the node before its children are made
TokenSelf(token, gen, parent) ==
    [token |-> token, conversion |-> NoneVal, parent |-> parent,
     childs |-> <<>>, gen |-> gen]

\* The constructor after its scan sc
TokenScanned(token, gen, parent, id, sc) ==
    IF sc.exc # "None"
    THEN [exc |-> sc.exc, pos |-> sc.pos, nodes |-> <<>>]
    ELSE TokenChilds(sc.raw_childs, 1, id, <<TokenSelf(token, gen, parent)>>)

TokenInit(token, gen, parent, id) ==
    TokenScanned(token, gen, parent, id, ScanBraces(token, 1, <<>>, <<>>))

\* self.childs.append(Token(child, self.generation+1, self)), for the child
\* made as sub with the id cid
TokenChildMade(raw_childs, k, id, nodes, cid, sub) ==
    IF sub.exc # "None" THEN sub
    ELSE TokenChilds(raw_childs, k + 1, id,
                     [nodes EXCEPT ![1].childs = Append(@, cid)] \o sub.nodes)

TokenChilds(raw_childs, k, id, nodes) ==
    IF k > Len(raw_childs) THEN [exc |-> "None", pos |-> -1, nodes |-> nodes]
    ELSE TokenChildMade(raw_childs, k, id, nodes, id + Len(nodes),
                        TokenInit(raw_childs[k], nodes[1].gen + 1, id,
                                  id + Len(nodes)))

\* dict_join(left, right) with the '+' of lists
dict_join(left, right) ==
    [key \in (DOMAIN left) \cup (DOMAIN right) |->
        IF key \in DOMAIN left
        THEN IF key \in DOMAIN right THEN left[key] \o right[key] ELSE left[key]
        ELSE right[key]]

\* Token.list(): generation -> ids of the tokens of that generation
RECURSIVE TokenList(_, _)
RECURSIVE TokenListChilds(_, _, _, _)
\* Token.list() that puts the token twice in the list of its generation
TokenListTwice(nodes, id) ==
    TokenListChilds(nodes, nodes[id].childs, 1,
                    (nodes[id].gen :> <<id, id>>))
TokenList(nodes, id) ==
    TokenListChilds(nodes, nodes[id].childs, 1, (nodes[id].gen :> <<id>>))

TokenListChilds(nodes, childs, k, back) ==
    IF k > Len(childs) THEN back
    ELSE TokenListChilds(nodes, childs, k + 1,
                         dict_join(back, TokenList(nodes, childs[k])))

\* Token.replace_child_conversions()
RECURSIVE ReplaceChilds(_, _, _, _)
ReplaceChilds(nodes, childs, k, out) ==
    IF k > Len(childs) THEN [exc |-> "None", val |-> out]
    ELSE LET child == nodes[childs[k]]
         IN  IF child.conversion = NoneVal
             THEN [exc |-> "RuntimeError", val |-> <<>>]
             ELSE ReplaceChilds(nodes, childs, k + 1,
                      StrReplace(out, <<"{">> \o child.token \o <<"}">>,
                                 child.conversion, 1))

replace_child_conversions(nodes, id) ==
    ReplaceChilds(nodes, nodes[id].childs, 1, nodes[id].token)

\* ------------------------------------------------------------------------
\* placeholder.py
\* ------------------------------------------------------------------------
\* chr(c) for c in range(48, 57) + range(65, 90) + range(97, 122)
SECURE_CHARS ==
    <<"0", "1", "2", "3", "4", "5", "6", "7", "8",
      "A", "B", "C", "D", "E", "F", "G", "H", "I", "J", "K", "L", "M",
      "N", "O", "P", "Q", "R", "S", "T", "U", "V", "W", "X", "Y",
      "a", "b", "c", "d", "e", "f", "g", "h", "i", "j", "k", "l", "m",
      "n", "o", "p", "q", "r", "s", "t", "u", "v", "w", "x", "y">>

DEFAULT_SAFE_CHARS == <<"$", "_">>

\* Outcomes of the eight random.choice(safe_chars) of one marker.  A handler
\* is created with a sequence of them (rand); the n-th marker made takes the
\* n-th, cyclically.
RandomChars ==
    { <<"$", "$", "$", "$", "$", "$", "$", "$">>,
      <<"_", "$", "_", "$", "$", "_", "$", "_">> }

RandomDraws == { <<r1, r2>> : r1 \in RandomChars, r2 \in RandomChars }

\* PlaceholderHandler.__init__
NewPlaceholderHandler(rand) ==
    [_current_placeholders |-> <<>>, _secure_index |-> 0,
     made |-> 0, rand |-> rand]

\* _get_new_placeholder without self._secure_index += 1
get_new_placeholder_same_index(h) ==
    LET index == IF h._secure_index >= Len(SECURE_CHARS)
                 THEN 0 ELSE h._secure_index
        secure_char == SECURE_CHARS[index + 1]
        random_chars == h.rand[(h.made % Len(h.rand)) + 1]
    IN  [h |-> [h EXCEPT !._secure_index = index, !.made = @ + 1],
         placeholder |-> SubSeq(random_chars, 1, 4) \o <<secure_char>>
                         \o SubSeq(random_chars, 5, 8)]

\* PlaceholderHandler._get_new_placeholder
get_new_placeholder(h) ==
    LET index == IF h._secure_index >= Len(SECURE_CHARS)
                 THEN 0 ELSE h._secure_index
        secure_char == SECURE_CHARS[index + 1]
        random_chars == h.rand[(h.made % Len(h.rand)) + 1]
    IN  [h |-> [h EXCEPT !._secure_index = index + 1, !.made = @ + 1],
         placeholder |-> SubSeq(random_chars, 1, 4) \o <<secure_char>>
                         \o SubSeq(random_chars, 5, 8)]

\* PlaceholderHandler._revert_groups
RECURSIVE RevertLoop(_, _, _, _, _)
RevertLoop(phs, k, string, group_list, ignore) ==
    IF k > Len(phs) THEN string
    ELSE LET ph == phs[k]
             back == IF ignore THEN ph.hidden
                     ELSE IF ph.type = "between"
                     THEN <<ph.identifier[1]>> \o ph.hidden
                          \o <<ph.identifier[2]>>
                     ELSE IF ph.type = "after"
                     THEN ph.identifier \o ph.hidden
                     ELSE ph.hidden
         IN  IF ph.group \in group_list /\ StrIn(ph.name, string)
             THEN RevertLoop(phs, k + 1, StrReplaceAll(string, ph.name, back),
                             group_list, ignore)
             ELSE RevertLoop(phs, k + 1, string, group_list, ignore)

revert_groups(h, string, group_list, ignore) ==
    RevertLoop(h._current_placeholders, 1, string, group_list, ignore)

LastGroup(h) ==
    h._current_placeholders[Len(h._current_placeholders)].group

\* PlaceholderHandler.revert
revert(h, string, ignore_identifiers) ==
    IF Len(h._current_placeholders) > 0
    THEN revert_groups(h, string, 0..LastGroup(h), ignore_identifiers)
    ELSE string

\* PlaceholderHandler.revert_last
revert_last(h, string, ignore_identifiers) ==
    IF Len(h._current_placeholders) > 0
    THEN revert_groups(h, string, {LastGroup(h)}, ignore_identifiers)
    ELSE string

\* PlaceholderHandler.after: the scan that collects to_placehold
RECURSIVE AfterScan(_, _, _, _, _, _, _, _, _)
AfterScan(string, i, idchar, stop_chars, stop_after, new, plh, count, found) ==
    IF i > Len(string)
    THEN IF new THEN Append(found, plh) ELSE found
    ELSE LET char == string[i]
         IN  IF new
             THEN IF char \in stop_chars \/ count + 1 > stop_after
                  THEN AfterScan(string, i + 1, idchar, stop_chars, stop_after,
                                 FALSE, <<>>, 0, Append(found, plh))
                  ELSE AfterScan(string, i + 1, idchar, stop_chars, stop_after,
                                 TRUE, Append(plh, char), count + 1,
                                 found)
             ELSE AfterScan(string, i + 1, idchar, stop_chars, stop_after,
                            char = idchar, plh, count, found)

\* PlaceholderHandler.after: the replacements, one marker for each substr
RECURSIVE AfterReplace(_, _, _, _, _, _)
AfterReplace(h, string, idchar, to_placehold, k, group) ==
    IF k > Len(to_placehold) THEN [h |-> h, string |-> string]
    ELSE LET g == get_new_placeholder(h)
             substr == to_placehold[k]
             rec == [group |-> group, name |-> g.placeholder,
                     hidden |-> substr, type |-> "after",
                     identifier |-> <<idchar>>]
         IN  AfterReplace(
                 [g.h EXCEPT !._current_placeholders = Append(@, rec)],
                 StrReplaceAll(string, <<idchar>> \o substr, g.placeholder),
                 idchar, to_placehold, k + 1, group)

\* PlaceholderHandler.after(string, idchar, stop) for stop a str (stop_chars,
\* with stop_after 1000), an int (stop_after) or a tuple of both
after(h, string, idchar, stop_chars, stop_after) ==
    AfterReplace(h, string, idchar,
                 AfterScan(string, 1, idchar, stop_chars, stop_after,
                           FALSE, <<>>, 0, <<>>),
                 1, h._secure_index)

\* PlaceholderHandler.between: stack holds the 0-based position of the open
\* delimiter, copy is the string as it was given.
RECURSIVE BetweenScan(_, _, _, _, _, _, _, _)
BetweenScan(h, string, copy, i, stack, open_char, close_char, group) ==
    IF i > Len(copy) THEN [h |-> h, string |-> string]
    ELSE IF stack = <<>> /\ copy[i] = open_char
    THEN BetweenScan(h, string, copy, i + 1, <<i - 1>>, open_char, close_char,
                     group)
    ELSE IF stack # <<>> /\ copy[i] = close_char
    THEN LET start == stack[Len(stack)]
             hidden == SubSeq(copy, start + 2, i - 1)
             g == get_new_placeholder(h)
             rec == [group |-> group, name |-> g.placeholder,
                     hidden |-> hidden, type |-> "between",
                     identifier |-> <<open_char, close_char>>]
         IN  BetweenScan(
                 [g.h EXCEPT !._current_placeholders = Append(@, rec)],
                 StrReplaceAll(string,
                               <<open_char>> \o hidden \o <<close_char>>,
                               g.placeholder),
                 copy, i + 1, SubSeq(stack, 1, Len(stack) - 1),
                 open_char, close_char, group)
    ELSE BetweenScan(h, string, copy, i + 1, stack, open_char, close_char,
                     group)

\* PlaceholderHandler.between(string, open_char, close_char)
between(h, string, open_char, close_char) ==
    BetweenScan(h, string, string, 1, <<>>, open_char, close_char,
                h._secure_index)

\* ------------------------------------------------------------------------
\* hformat.py: names used by the engine
\* ------------------------------------------------------------------------
ESCAPE_CHAR == "!"

\* The names of functions and of arguments that convert and _build look for
Names ==
    [width |-> <<"w", "i", "d", "t", "h">>,
     field |-> <<"f", "i", "e", "l", "d">>,
     trim |-> <<"t", "r", "i", "m">>,
     fill |-> <<"f", "i", "l", "l">>,
     left |-> <<"l", "e", "f", "t">>,
     right |-> <<"r", "i", "g", "h", "t">>,
     center |-> <<"c", "e", "n", "t", "e", "r">>,
     size |-> <<"s", "i", "z", "e">>,
     fillchar |-> <<"f", "i", "l", "l", "c", "h", "a", "r">>,
     align |-> <<"a", "l", "i", "g", "n">>,
     man |-> <<"m", "a", "n">>,
     canvas |-> <<"c", "a", "n", "v", "a", "s">>,
     zwidth |-> <<"z", "w", "i", "d", "t", "h">>,
     sign |-> <<"s", "i", "g", "n">>,
     precision |-> <<"p", "r", "e", "c", "i", "s", "i", "o", "n">>,
     float |-> <<"f", "l", "o", "a", "t">>,
     prec |-> <<"p", "r", "e", "c">>,
     milesep |-> <<"m", "i", "l", "e", "s", "e", "p">>,
     floatsep |-> <<"f", "l", "o", "a", "t", "s", "e", "p">>,
     wrap |-> <<"w", "r", "a", "p">>,
     bin |-> <<"b", "i", "n">>,
     octal |-> <<"o", "c", "t", "a", "l">>,
     hex |-> <<"h", "e", "x">>,
     Hex |-> <<"H", "e", "x">>]

\* ------------------------------------------------------------------------
\* functions.yml as yaml.load returns it: a list of groups.  'name' is a str
\* or a list of strs, each "main, alias, ..."; 'args' (optional) is a list
\* of "name, man|opt".
\* ------------------------------------------------------------------------
FunctionsYml ==
    << [name_is_list |-> FALSE,
        name |-> <<"w", "i", "d", "t", "h", ",", " ", "w">>,
        args |-> << <<"s", "i", "z", "e", ",", " ", "m", "a", "n">> >>],
       [name_is_list |-> FALSE,
        name |-> <<"t", "r", "i", "m">>,
        args |-> << <<"l", "i", "m", "i", "t", ",", " ", "m", "a", "n">>,
                    <<"s", "t", "o", "p", ",", " ", "o", "p", "t">> >>],
       [name_is_list |-> FALSE,
        name |-> <<"f", "i", "e", "l", "d">>,
        args |-> << <<"s", "i", "z", "e", ",", " ", "m", "a", "n">>,
                    <<"f", "i", "l", "l", "c", "h", "a", "r", ",", " ", "o", "p", "t">>,
                    <<"a", "l", "i", "g", "n", ",", " ", "o", "p", "t">> >>],
       [name_is_list |-> FALSE,
        name |-> <<"f", "i", "l", "l">>,
        args |-> << <<"f", "i", "l", "l", "c", "h", "a", "r", ",", " ", "m", "a", "n">> >>],
       [name_is_list |-> TRUE,
        name |-> << <<"l", "e", "f", "t", ",", " ", "l">>,
                    <<"r", "i", "g", "h", "t", ",", " ", "r">>,
                    <<"c", "e", "n", "t", "e", "r", ",", " ", "c">> >>,
        args |-> <<>>],
       [name_is_list |-> FALSE,
        name |-> <<"c", "a", "n", "v", "a", "s">>,
        args |-> << <<"s", "i", "z", "e", ",", " ", "m", "a", "n">>,
                    <<"f", "i", "l", "l", "c", "h", "a", "r", ",", " ", "o", "p", "t">>,
                    <<"a", "l", "i", "g", "n", ",", " ", "o", "p", "t">> >>],
       [name_is_list |-> FALSE,
        name |-> <<"s", "i", "g", "n">>,
        args |-> << <<"m", "o", "d", "e", ",", " ", "o", "p", "t">> >>] >>

\* ------------------------------------------------------------------------
\* hformat.py: FunctionObject
\* ------------------------------------------------------------------------
\* FunctionObject._fdefs = None
FdefsNone == [set |-> FALSE, defs |-> <<>>]

\* d[key] = value
DictSet(d, key, value) ==
    [k \in (DOMAIN d) \cup {key} |-> IF k = key THEN value ELSE d[k]]

\* [a.strip() for a in raw.split(',')]
SplitStrip(raw) ==
    LET parts == StrSplit(raw, ",")
    IN  [k \in 1..Len(parts) |-> StrStrip(parts[k])]

\* for func_name in allowed_names: _fdefs[func_name] = {id, args}
RECURSIVE LoadAllowedNames(_, _, _, _, _)
LoadAllowedNames(defs, allowed_names, k, main_name, args) ==
    IF k > Len(allowed_names) THEN defs
    ELSE LoadAllowedNames(
             DictSet(defs, allowed_names[k], [id |-> main_name, args |-> args]),
             allowed_names, k + 1, main_name, args)

\* for raw_name in group_names
RECURSIVE LoadGroupNames(_, _, _, _)
LoadGroupNames(defs, group_names, k, args) ==
    IF k > Len(group_names) THEN defs
    ELSE LET allowed_names == SplitStrip(group_names[k])
         IN  LoadGroupNames(
                 LoadAllowedNames(defs, allowed_names, 1, allowed_names[1],
                                  args),
                 group_names, k + 1, args)

\* for raw_group in raw_def
RECURSIVE LoadGroups(_, _, _)
LoadGroups(defs, raw_def, k) ==
    IF k > Len(raw_def) THEN defs
    ELSE LET raw_group == raw_def[k]
             args == [j \in 1..Len(raw_group.args) |->
                         SplitStrip(raw_group.args[j])]
             group_names == IF raw_group.name_is_list
                            THEN raw_group.name ELSE <<raw_group.name>>
         IN  LoadGroups(LoadGroupNames(defs, group_names, 1, args),
                        raw_def, k + 1)

\* The load with FunctionObject._fdefs = dict() after the resource is read
LoadFdefsReadFirst(fdefs, file_ok) ==
    IF fdefs.set THEN [exc |-> "None", fdefs |-> fdefs]
    ELSE IF ~file_ok
    THEN [exc |-> "FileNotFoundError", fdefs |-> fdefs]
    ELSE [exc |-> "None",
          fdefs |-> [set |-> TRUE, defs |-> LoadGroups(<<>>, FunctionsYml, 1)]]

\* The first part of _build: the table is made from the resource just once.
\* file_ok says whether open() and yaml.load() of the resource succeed.
LoadFdefs(fdefs, file_ok) ==
    IF fdefs.set THEN [exc |-> "None", fdefs |-> fdefs]
    ELSE IF ~file_ok
    THEN [exc |-> "FileNotFoundError", fdefs |-> [set |-> TRUE, defs |-> <<>>]]
    ELSE [exc |-> "None",
          fdefs |-> [set |-> TRUE, defs |-> LoadGroups(<<>>, FunctionsYml, 1)]]

\* len([m for m in func_def['args'] if m[1] == 'man'])
RECURSIVE CountMan(_)
CountMan(args) ==
    IF args = <<>> THEN 0
    ELSE (IF Head(args)[2] = Names.man THEN 1 ELSE 0) + CountMan(Tail(args))

\* The name as __init__ sets it, were _build not to take the id
BuildNameAsGiven(func_def, given_name) == given_name
\* self.name = func_def['id']
BuildName(func_def, given_name) == func_def.id

\* The test of the number of arguments without its second if
ArgsCheckNoMinimum(n_given_args, total_allowed_args, min_man_args) ==
    IF n_given_args > total_allowed_args THEN "too_many" ELSE "None"
\* The two tests of the number of arguments: the error raised, or "None"
ArgsCheck(n_given_args, total_allowed_args, min_man_args) ==
    IF n_given_args > total_allowed_args THEN "too_many"
    ELSE IF n_given_args < min_man_args THEN "too_few"
    ELSE "None"

\* zip_longest(func_def['args'], given_args), stored by name and by index
BuildArgs(def_args, given_args) ==
    LET given(k) == IF k <= Len(given_args) THEN given_args[k] ELSE NoneVal
    IN  [byname |-> [nm \in {def_args[k][1] : k \in 1..Len(def_args)} |->
                        LET last == CHOOSE k \in 1..Len(def_args) :
                                        /\ def_args[k][1] = nm
                                        /\ \A j \in (k + 1)..Len(def_args) :
                                               def_args[j][1] # nm
                        IN  given(last)],
         bypos |-> [k \in 0..(Len(def_args) - 1) |-> given(k + 1)]]

NoArgs == [byname |-> <<>>, bypos |-> <<>>]

\* The object _build leaves when it raises
BuildFailed(exc, msg, fdefs, given_name) ==
    [exc |-> exc, msg |-> msg, fdefs |-> fdefs, name |-> given_name,
     args |-> NoArgs]

\* _build from func_def = FunctionObject._fdefs[self.name] on
BuildDefined(fdefs, func_def, given_name, given_args) ==
    LET chk == ArgsCheck(Len(given_args), Len(func_def.args),
                         CountMan(func_def.args))
    IN  IF chk # "None" THEN BuildFailed("TypeError", chk, fdefs, given_name)
        ELSE [exc |-> "None", msg |-> "None", fdefs |-> fdefs,
              name |-> BuildName(func_def, given_name),
              args |-> BuildArgs(func_def.args, given_args)]

\* _build after the table is there: ld is what the loading left
BuildLoaded(ld, given_name, given_args) ==
    IF ld.exc # "None" THEN BuildFailed(ld.exc, "open", ld.fdefs, given_name)
    ELSE IF given_name \notin DOMAIN ld.fdefs.defs
    THEN BuildFailed("NameError", "not_defined", ld.fdefs, given_name)
    ELSE BuildDefined(ld.fdefs, ld.fdefs.defs[given_name], given_name,
                      given_args)

\* FunctionObject(name, args): __init__ and _build
FunctionObject(fdefs, file_ok, given_name, given_args) ==
    BuildLoaded(LoadFdefs(fdefs, file_ok), given_name, given_args)

\* ------------------------------------------------------------------------
\* hformat.py: HumanFormatter.parse
\* ------------------------------------------------------------------------
\* func_args of one raw_func: each argument stripped and reverted without
\* its identifiers
ParseFuncArgs(h, raw_func_args) ==
    IF raw_func_args = NoneVal \/ raw_func_args = <<>> THEN <<>>
    ELSE LET parts == StrSplit(PySliceTo(raw_func_args, -1), ",")
         IN  [k \in 1..Len(parts) |-> revert(h, StrStrip(parts[k]), TRUE)]

\* for raw_func in raw_funcs: the FunctionObjects, or the first exception
RECURSIVE ParseFuncs(_, _, _, _, _, _)

\* functions.append(FunctionObject(func_name, func_args)), for the object fo
ParseFuncBuilt(h, file_ok, raw_funcs, k, functions, fo) ==
    IF fo.exc # "None"
    THEN [exc |-> fo.exc, msg |-> fo.msg, fdefs |-> fo.fdefs,
          functions |-> functions]
    ELSE ParseFuncs(h, fo.fdefs, file_ok, raw_funcs, k + 1,
                    Append(functions, [name |-> fo.name, args |-> fo.args]))

\* func_name, raw_func_args = raw_func.split('('), for the parts of the split
ParseFuncCall(h, fdefs, file_ok, raw_funcs, k, functions, parts) ==
    IF Len(parts) # 2
    THEN [exc |-> "ValueError", msg |-> "split_paren", fdefs |-> fdefs,
          functions |-> functions]
    ELSE ParseFuncBuilt(h, file_ok, raw_funcs, k, functions,
                        FunctionObject(fdefs, file_ok, parts[1],
                                       ParseFuncArgs(h, parts[2])))

\* One raw_func, stripped and with its last masking reverted
ParseFunc(h, fdefs, file_ok, raw_funcs, k, functions, raw_func) ==
    IF StrIn(<<"(">>, raw_func)
    THEN ParseFuncCall(h, fdefs, file_ok, raw_funcs, k, functions,
                       StrSplit(raw_func, "("))
    ELSE ParseFuncBuilt(h, file_ok, raw_funcs, k, functions,
                        FunctionObject(fdefs, file_ok, raw_func,
                                       ParseFuncArgs(h, NoneVal)))

ParseFuncs(h, fdefs, file_ok, raw_funcs, k, functions) ==
    IF k > Len(raw_funcs)
    THEN [exc |-> "None", msg |-> "None", fdefs |-> fdefs,
          functions |-> functions]
    ELSE ParseFunc(h, fdefs, file_ok, raw_funcs, k, functions,
                   revert_last(h, StrStrip(raw_funcs[k]), FALSE))

\* The two parts of the split of safe_string
SplitParts(parts) ==
    IF Len(parts) # 2
    THEN [ok |-> FALSE, expression |-> <<>>, specs |-> <<>>]
    ELSE [ok |-> TRUE, expression |-> StrStrip(parts[1]),
          specs |-> StrStrip(parts[2])]

\* expression, specs = safe_string.split(':'), both stripped; without a ':'
\* the whole text is the expression.  ok is FALSE when the unpacking fails.
SplitExpression(safe_string) ==
    IF StrIn(<<":">>, safe_string)
    THEN SplitParts(StrSplit(safe_string, ":"))
    ELSE [ok |-> TRUE, expression |-> safe_string, specs |-> <<>>]

\* The masking of parse: escaped characters, then quoted substrings
QuoteChar(token) ==
    IF StrCount(token, "'") >= StrCount(token, "\"") THEN "'" ELSE "\""

MaskQuoted(esc, quote_char) ==
    between(esc.h, esc.string, quote_char, quote_char)

ParseMask(token, rand) ==
    MaskQuoted(after(NewPlaceholderHandler(rand), token, ESCAPE_CHAR, {}, 1),
               QuoteChar(token))

\* funcs_sep = ',' if safe_specs.count(',') >= safe_specs.count(';') else ';'
FuncsSep(safe_specs) ==
    IF StrCount(safe_specs, ",") >= StrCount(safe_specs, ";")
    THEN "," ELSE ";"

\* What parse returns after its loop over raw_funcs
ParseResult(safe_string, expression, fs) ==
    [exc |-> fs.exc, msg |-> fs.msg, fdefs |-> fs.fdefs,
     expression |-> expression, functions |-> fs.functions,
     safe_string |-> safe_string]

\* parse from the masking of the arguments (args) on
ParseSpecs(fdefs, file_ok, safe_string, expression, args) ==
    ParseResult(safe_string, expression,
                ParseFuncs(args.h, fdefs, file_ok,
                           StrSplit(args.string, FuncsSep(args.string)),
                           1, <<>>))

\* parse from the split (sp) of the masked text on
ParseSplit(fdefs, file_ok, masked, sp) ==
    IF ~sp.ok
    THEN [exc |-> "ValueError", msg |-> "split_colon", fdefs |-> fdefs,
          expression |-> <<>>, functions |-> <<>>,
          safe_string |-> masked.string]
    ELSE IF sp.specs = <<>>
    THEN [exc |-> "None", msg |-> "None", fdefs |-> fdefs,
          expression |-> revert(masked.h, sp.expression, FALSE),
          functions |-> <<>>, safe_string |-> masked.string]
    ELSE ParseSpecs(fdefs, file_ok, masked.string,
                    revert(masked.h, sp.expression, FALSE),
                    between(masked.h, sp.specs, "(", ")"))

ParseMasked(fdefs, file_ok, masked) ==
    ParseSplit(fdefs, file_ok, masked, SplitExpression(masked.string))

\* HumanFormatter.parse(token): (expression, functions), with the function
\* table as the FunctionObjects left it
parse(fdefs, file_ok, token, rand) ==
    ParseMasked(fdefs, file_ok, ParseMask(token, rand))

\* ------------------------------------------------------------------------
\* The render primitive "{0:{1}}".format(value, spec) for a str value
\* ------------------------------------------------------------------------
AlignChars == {"<", ">", "=", "^"}

\* The longest run of digits of spec that starts at 1-based position i
RECURSIVE DigitRun(_, _)
DigitRun(spec, i) ==
    IF i <= Len(spec) /\ spec[i] \in DigitSet
    THEN <<spec[i]>> \o DigitRun(spec, i + 1) ELSE <<>>

\* spec[i], or "" past the end
SpecAt(spec, i) == IF i <= Len(spec) THEN spec[i] ELSE ""

\* [[fill]align][sign][#][0][width][,][.precision][type], read as Python
\* reads it, field after field; f.pos is the place of the next character.
SpecFillAlign(spec) ==
    IF Len(spec) >= 2 /\ spec[2] \in AlignChars
    THEN [pos |-> 3, fill_given |-> TRUE, fill |-> spec[1], align |-> spec[2]]
    ELSE IF Len(spec) >= 1 /\ spec[1] \in AlignChars
    THEN [pos |-> 2, fill_given |-> FALSE, fill |-> " ", align |-> spec[1]]
    ELSE [pos |-> 1, fill_given |-> FALSE, fill |-> " ", align |-> "<"]

SpecSign(spec, f) ==
    IF SpecAt(spec, f.pos) \in {"+", "-", " "}
    THEN [pos |-> f.pos + 1, fill_given |-> f.fill_given, fill |-> f.fill,
          align |-> f.align, sign |-> spec[f.pos]]
    ELSE [pos |-> f.pos, fill_given |-> f.fill_given, fill |-> f.fill,
          align |-> f.align, sign |-> ""]

SpecAlter(spec, f) ==
    IF SpecAt(spec, f.pos) = "#"
    THEN [pos |-> f.pos + 1, fill_given |-> f.fill_given, fill |-> f.fill,
          align |-> f.align, sign |-> f.sign, alter |-> TRUE]
    ELSE [pos |-> f.pos, fill_given |-> f.fill_given, fill |-> f.fill,
          align |-> f.align, sign |-> f.sign, alter |-> FALSE]

SpecZero(spec, f) ==
    IF ~f.fill_given /\ SpecAt(spec, f.pos) = "0"
    THEN [pos |-> f.pos + 1, fill |-> "0", align |-> f.align,
          sign |-> f.sign, alter |-> f.alter]
    ELSE [pos |-> f.pos, fill |-> f.fill, align |-> f.align,
          sign |-> f.sign, alter |-> f.alter]

SpecNumber(digits) == IF digits = <<>> THEN -1 ELSE DigitsToInt(digits)

SpecWidthWith(spec, f, width) ==
    [pos |-> f.pos + Len(width), fill |-> f.fill, align |-> f.align,
     sign |-> f.sign, alter |-> f.alter, width |-> SpecNumber(width)]

SpecWidth(spec, f) == SpecWidthWith(spec, f, DigitRun(spec, f.pos))

SpecComma(spec, f) ==
    IF SpecAt(spec, f.pos) \in {",", "_"}
    THEN [pos |-> f.pos + 1, fill |-> f.fill, align |-> f.align,
          sign |-> f.sign, alter |-> f.alter, width |-> f.width,
          comma |-> TRUE]
    ELSE [pos |-> f.pos, fill |-> f.fill, align |-> f.align,
          sign |-> f.sign, alter |-> f.alter, width |-> f.width,
          comma |-> FALSE]

SpecPrecisionWith(spec, f, precision) ==
    [pos |-> f.pos + 1 + Len(precision), fill |-> f.fill, align |-> f.align,
     sign |-> f.sign, alter |-> f.alter, width |-> f.width,
     comma |-> f.comma, precision |-> SpecNumber(precision),
     ok |-> precision # <<>>]

SpecPrecision(spec, f) ==
    IF SpecAt(spec, f.pos) = "."
    THEN SpecPrecisionWith(spec, f, DigitRun(spec, f.pos + 1))
    ELSE [pos |-> f.pos, fill |-> f.fill, align |-> f.align,
          sign |-> f.sign, alter |-> f.alter, width |-> f.width,
          comma |-> f.comma, precision |-> -1, ok |-> TRUE]

\* What is left is the type, one character at most; ok is FALSE for
\* "Invalid format specifier".
SpecType(spec, f) ==
    [ok |-> f.ok /\ Len(spec) - f.pos + 1 <= 1, fill |-> f.fill,
     align |-> f.align, sign |-> f.sign, alter |-> f.alter,
     width |-> f.width, comma |-> f.comma, precision |-> f.precision,
     type |-> SpecAt(spec, f.pos)]

ParseFormatSpec(spec) ==
    SpecType(spec,
      SpecPrecision(spec,
        SpecComma(spec,
          SpecWidth(spec,
            SpecZero(spec,
              SpecAlter(spec,
                SpecSign(spec,
                  SpecFillAlign(spec))))))))

Repeat(c, n) == [k \in 1..n |-> c]

\* The padding of a str: text is the value cut to the precision, total the
\* number of fill characters
PadStr(f, text, total) ==
    Repeat(f.fill,
           IF f.align = ">" THEN total
           ELSE IF f.align = "^" THEN total \div 2 ELSE 0)
    \o text
    \o Repeat(f.fill,
              IF f.align = ">" THEN 0
              ELSE IF f.align = "^" THEN total - (total \div 2) ELSE total)

CutStr(f, value) ==
    IF f.precision >= 0 THEN PySliceTo(value, f.precision) ELSE value

RenderStr(f, text) ==
    IF \/ ~f.ok
       \/ f.type \notin {"", "s"}
       \/ f.sign # ""
       \/ f.alter
       \/ f.comma
       \/ f.align = "="
    THEN [exc |-> "ValueError", val |-> <<>>]
    ELSE [exc |-> "None",
          val |-> PadStr(f, text,
                         IF f.width > Len(text) THEN f.width - Len(text)
                         ELSE 0)]

RenderCut(f, value) == RenderStr(f, CutStr(f, value))

\* format(value, spec) for a str value
PyFormatStr(value, spec) == RenderCut(ParseFormatSpec(spec), value)

\* An int value is the tag "int" followed by the characters of its str()
IsInt(value) == value # <<>> /\ Head(value) = "int"

\* The padding of an int: '=' puts the fill between the sign and the digits
PadInt(f, align, sign, digits, total) ==
    IF align = "=" THEN sign \o Repeat(f.fill, total) \o digits
    ELSE PadStr([f EXCEPT !.align = align], sign \o digits, total)

\* An int under the types '', 'd' and 'n': no precision; a number is put to
\* the right unless an align is given, and the '0' flag alone means '='.
\* The other types and the grouping are "Unmodelled".
RenderInt(f, align_given, neg, digits) ==
    IF f.type \notin {"", "d", "n"} \/ f.comma
    THEN [exc |-> "Unmodelled", val |-> <<>>]
    ELSE IF ~f.ok \/ f.precision >= 0
    THEN [exc |-> "ValueError", val |-> <<>>]
    ELSE [exc |-> "None",
          val |-> PadInt(f,
                         IF align_given THEN f.align
                         ELSE IF f.fill = "0" THEN "=" ELSE ">",
                         IF neg THEN <<"-">>
                         ELSE IF f.sign \in {"+", " "} THEN <<f.sign>>
                         ELSE <<>>,
                         digits,
                         Max(f.width - Len(digits)
                                 - (IF neg \/ f.sign \in {"+", " "}
                                    THEN 1 ELSE 0),
                             0))]

\* format(value, spec) for an int value
PyFormatInt(value, spec) ==
    RenderInt(ParseFormatSpec(spec), SpecFillAlign(spec).pos > 1,
              value[2] = "-",
              IF value[2] = "-" THEN SubSeq(value, 3, Len(value))
              ELSE Tail(value))

\* "{0:{1}}".format(value, spec)
PyFormat(value, spec) ==
    IF IsInt(value) THEN PyFormatInt(value, spec)
    ELSE PyFormatStr(value, spec)

\* ------------------------------------------------------------------------
\* hformat.py: HumanFormatter.convert
\* ------------------------------------------------------------------------
\* chr(5), chr(6), chr(7)
CANVAS_FILL_PLACEHOLDER == "\\x05"
MISC_PLACEHOLDER == "\\x06"
MULTICHAR_FILL_PLACEHOLDER == "\\x07"

\* _ptype_dict, in the order of its keys
PtypeDict ==
    << <<<<"s", "t", "r", "i", "n", "g">>, <<>>>>,
       <<<<"b", "i", "n">>, <<"b">>>>,
       <<<<"r", "a", "w", "b", "i", "n">>, <<"b">>>>,
       <<<<"c", "h", "a", "r">>, <<"c">>>>,
       <<<<"d", "e", "c", "i", "m", "a", "l">>, <<"d">>>>,
       <<<<"o", "c", "t", "a", "l">>, <<"o">>>>,
       <<<<"r", "a", "w", "o", "c", "t", "a", "l">>, <<"o">>>>,
       <<<<"h", "e", "x">>, <<"x">>>>,
       <<<<"H", "e", "x">>, <<"X">>>>,
       <<<<"r", "a", "w", "h", "e", "x">>, <<"x">>>>,
       <<<<"r", "a", "w", "H", "e", "x">>, <<"X">>>>,
       <<<<"n", "u", "m", "b", "e", "r">>, <<"n">>>>,
       <<<<"e", "x", "p">>, <<"e">>>>,
       <<<<"E", "x", "p">>, <<"E">>>>,
       <<<<"f", "l", "o", "a", "t">>, <<"f">>>>,
       <<<<"F", "l", "o", "a", "t">>, <<"F">>>>,
       <<<<"g", "e", "n", "e", "r", "a", "l">>, <<"g">>>>,
       <<<<"G", "e", "n", "e", "r", "a", "l">>, <<"G">>>>,
       <<<<"p", "e", "r", "c", "e", "n", "t", "a", "g", "e">>, <<"%">>>> >>

IsIdentifier(e) ==
    /\ e # <<>>
    /\ e[1] \in Letters \cup {"_"}
    /\ \A i \in 1..Len(e) : e[i] \in Letters \cup DigitSet \cup {"_"}

ArgsRef(k) == <<"_", "_", "a", "r", "g", "s", "_", "_", "[">> \o IntToStr(k)

\* A brace next to a name, a number or another brace, as in a{b}, {b}a and
\* {b}{b}: no Python syntax
BraceJuxtaposed(e) ==
    \E i \in 1..(Len(e) - 1) :
        \/ e[i] = "}" /\ e[i + 1] \in Letters \cup DigitSet \cup {"_", "{"}
        \/ e[i] \in Letters \cup DigitSet \cup {"_"} /\ e[i + 1] = "{"

\* eval(fake_expr, None, given_args), for the expressions of the model:
\* an index into __args__, a name, one quoted str literal, text with the
\* escape character or with juxtaposed braces, which is no Python syntax,
\* or the set display of a name that is not bound.  The names of the
\* model's templates are no Python keywords and are bound neither in the
\* module nor in the builtins.  Anything else is "Unmodelled".
PyEval(fake_expr, given_args) ==
    LET n == Len(given_args.args)
        idx == {k \in 0..(n - 1) : fake_expr = ArgsRef(k) \o <<"]">>}
    IN  IF idx # {}
        THEN [exc |-> "None", val |-> given_args.args[(CHOOSE k \in idx : TRUE) + 1]]
        ELSE IF IsIdentifier(fake_expr)
        THEN IF fake_expr \in DOMAIN given_args.kwargs
             THEN [exc |-> "None", val |-> given_args.kwargs[fake_expr]]
             ELSE IF fake_expr = <<"_", "_", "a", "r", "g", "s", "_", "_">>
             THEN [exc |-> "Unmodelled", val |-> <<>>]
             ELSE [exc |-> "NameError", val |-> <<>>]
        ELSE IF /\ Len(fake_expr) >= 2
                /\ fake_expr[1] \in {"'", "\""}
                /\ fake_expr[Len(fake_expr)] = fake_expr[1]
                /\ \A i \in 2..(Len(fake_expr) - 1) :
                       fake_expr[i] \notin {"'", "\"", "\\", "\n"}
        THEN [exc |-> "None", val |-> SubSeq(fake_expr, 2, Len(fake_expr) - 1)]
        ELSE IF /\ \/ \E i \in 1..Len(fake_expr) :
                         /\ fake_expr[i] = "!"
                         /\ (i = Len(fake_expr) \/ fake_expr[i + 1] # "=")
                   \/ BraceJuxtaposed(fake_expr)
                /\ \A i \in 1..Len(fake_expr) : fake_expr[i] \notin {"'", "\""}
        THEN [exc |-> "SyntaxError", val |-> <<>>]
        ELSE IF /\ Len(fake_expr) >= 3
                /\ fake_expr[1] = "{"
                /\ fake_expr[Len(fake_expr)] = "}"
                /\ IsIdentifier(SubSeq(fake_expr, 2, Len(fake_expr) - 1))
                /\ SubSeq(fake_expr, 2, Len(fake_expr) - 1)
                       \notin (DOMAIN given_args.kwargs)
                               \cup {<<"_", "_", "a", "r", "g", "s", "_", "_">>}
        THEN [exc |-> "NameError", val |-> <<>>]
        ELSE [exc |-> "Unmodelled", val |-> <<>>]

\* The three replacements made for each index of the positional arguments
RECURSIVE FakeExpr(_, _, _)
FakeExpr(fake_expr, index, n) ==
    IF index >= n THEN fake_expr
    ELSE LET i == IntToStr(index)
             r1 == StrReplaceAll(fake_expr, i \o <<".">>,
                                 ArgsRef(index) \o <<"]", ".">>)
             r2 == StrReplaceAll(r1, i \o <<"[">>,
                                 ArgsRef(index) \o <<"]", "[">>)
             r3 == StrReplaceAll(r2, <<"_">> \o i \o <<"_">>,
                                 ArgsRef(index) \o <<"]">>)
         IN  FakeExpr(r3, index + 1, n)

\* The value taken when eval raises NameError
NameErrorValue(written, expression) == expression

\* A. Expression: the value of the expression and the next positional index
ConvertExpression(positional_args_index, written, given_args) ==
    LET next == written = <<>>
        e1 == IF next
              THEN <<"_">> \o IntToStr(positional_args_index) \o <<"_">>
              ELSE written
        expression == IF IsNumeric(e1) THEN <<"_">> \o e1 \o <<"_">> ELSE e1
        fake_expr == FakeExpr(expression, 0, Len(given_args.args))
        ev == PyEval(fake_expr, given_args)
    IN  [exc |-> IF ev.exc = "NameError" THEN "None" ELSE ev.exc,
         name_error |-> ev.exc = "NameError",
         consumed |-> next,
         expression |-> expression,
         final_expr |-> IF ev.exc = "NameError"
                        THEN NameErrorValue(written, expression) ELSE ev.val,
         index |-> IF next THEN positional_args_index + 1
                   ELSE positional_args_index]

\* get_func(*names): the first name, in the order given, that a function of
\* the token has; _func is the first function of that name
RECURSIVE get_func(_, _, _)
get_func(functions, names, k) ==
    IF k > Len(names) THEN [found |-> FALSE, func |-> [name |-> <<>>, args |-> NoArgs]]
    ELSE LET hits == {i \in 1..Len(functions) : functions[i].name = names[k]}
         IN  IF hits # {}
             THEN [found |-> TRUE,
                   func |-> functions[CHOOSE i \in hits :
                                          \A j \in hits : i <= j]]
             ELSE get_func(functions, names, k + 1)

\* args.get(key, default) for a declared name and for a position
ArgsGet(args, key, default) ==
    IF key \in DOMAIN args.byname THEN args.byname[key] ELSE default
ArgsGetPos(args, index, default) ==
    IF index \in DOMAIN args.bypos THEN args.bypos[index] ELSE default

\* x or default
OrElse(x, default) == IF x = NoneVal \/ x = <<>> THEN default ELSE x

\* The local variables of convert.  trimmed, relative, untrimmed and offset
\* record what trim and a relative width did: whether they ran, the text
\* before the cut and the number after the '+'.
ConvertVars(final_expr) ==
    [final_expr |-> final_expr, fill |-> <<>>, align |-> <<>>,
     wrapper |-> <<>>, multifill |-> <<>>, sign |-> <<>>, precision |-> <<>>,
     ptype |-> <<>>, alter |-> <<>>, comma |-> <<>>, decsep |-> <<>>,
     width |-> <<>>, zero |-> <<>>, trimmed |-> FALSE, relative |-> FALSE,
     untrimmed |-> <<>>, offset |-> 0, limit |-> 0]

Ok(v) == [exc |-> "None", v |-> v]
Raise(exc, v) == [exc |-> exc, v |-> v]

\* Fill: 'fill', 'field' and 'canvas'
ConvertFill(v, functions) ==
    LET gf == get_func(functions, <<Names.fill, Names.field, Names.canvas>>, 1)
        fill0 == ArgsGet(gf.func.args, Names.fillchar, <<>>)
        half == Len(fill0) \div 2
        is_canvas == gf.func.name = Names.canvas
        odd == Len(fill0) % 2 = 1
        wrapper == IF ~is_canvas THEN <<>>
                   ELSE IF odd
                   THEN PySliceTo(fill0, half) \o PySliceFrom(fill0, half + 1)
                   ELSE fill0
        fill1 == IF ~is_canvas THEN fill0
                 ELSE IF odd THEN <<fill0[half + 1]>>
                 ELSE <<CANVAS_FILL_PLACEHOLDER>>
    IN  IF ~gf.found THEN Ok(v)
        ELSE IF fill0 = NoneVal THEN Raise("TypeError", v)
        ELSE Ok([v EXCEPT !.align = <<"<">>,
                          !.wrapper = wrapper,
                          !.multifill = IF Len(fill1) > 1 THEN fill1 ELSE <<>>,
                          !.fill = IF Len(fill1) > 1
                                   THEN <<MULTICHAR_FILL_PLACEHOLDER>>
                                   ELSE fill1])

\* Align: 'align', 'left', 'right', 'center', 'field' and 'canvas'
ConvertAlign(v, functions) ==
    LET gf == get_func(functions, <<Names.align, Names.field, Names.canvas>>, 1)
        raw_align == IF gf.found THEN ArgsGet(gf.func.args, Names.align, <<"<">>)
                     ELSE <<>>
        has(name) == get_func(functions, <<name>>, 1).found
    IN  Ok([v EXCEPT !.align =
               IF has(Names.left) \/ raw_align \in {Names.left, <<"<">>} THEN <<"<">>
               ELSE IF has(Names.right) \/ raw_align \in {Names.right, <<">">>}
               THEN <<">">>
               ELSE IF has(Names.center) \/ raw_align \in {Names.center, <<"^">>}
               THEN <<"^">>
               ELSE IF raw_align \in {Names.sign, <<"=">>} THEN <<"=">>
               ELSE @])

\* Sign and precision
ConvertSignPrecision(v, functions) ==
    LET gs == get_func(functions, <<Names.sign>>, 1)
        gp == get_func(functions, <<Names.precision, Names.float>>, 1)
        aux == ArgsGet(gp.func.args, Names.prec, <<>>)
    IN  Ok([v EXCEPT !.sign = IF gs.found
                              THEN OrElse(ArgsGetPos(gs.func.args, 0, <<"+">>),
                                          <<"+">>)
                              ELSE @,
                     !.precision = IF gp.found /\ aux # NoneVal /\ aux # <<>>
                                   THEN <<".">> \o aux ELSE @])

\* Type
ConvertType(v, functions) ==
    LET keys == [k \in 1..Len(PtypeDict) |-> PtypeDict[k][1]]
        gf == get_func(functions, keys, 1)
        entry == CHOOSE k \in 1..Len(PtypeDict) : PtypeDict[k][1] = gf.func.name
    IN  IF ~gf.found THEN Ok(v)
        ELSE Ok([v EXCEPT !.ptype = PtypeDict[entry][2],
                          !.alter = IF gf.func.name \in
                                        {Names.bin, Names.octal, Names.hex, Names.Hex}
                                     THEN <<"#">> ELSE @])

\* Comma: 'milesep' and 'floatsep'
ConvertSeparators(v, functions) ==
    LET gm == get_func(functions, <<Names.milesep>>, 1)
        gd == get_func(functions, <<Names.floatsep>>, 1)
        comma0 == IF gm.found
                  THEN OrElse(ArgsGetPos(gm.func.args, 0, <<",">>), <<",">>)
                  ELSE <<>>
        decsep0 == IF gd.found
                   THEN OrElse(ArgsGetPos(gd.func.args, 0, <<".">>), <<".">>)
                   ELSE <<>>
        comma == OrElse(comma0, <<",">>)
        decsep == OrElse(decsep0, <<".">>)
        pre == PyFormat(v.final_expr,
                           v.alter \o <<",">> \o v.precision \o v.ptype)
        swapped == StrReplaceAll(
                       StrReplaceAll(
                           StrReplaceAll(pre.val, <<",">>,
                                         <<MISC_PLACEHOLDER>>),
                           <<".">>, decsep),
                       <<MISC_PLACEHOLDER>>, comma)
    IN  IF comma0 = <<>> /\ decsep0 = <<>> THEN Ok(v)
        ELSE IF pre.exc # "None" THEN Raise(pre.exc, v)
        ELSE Ok([v EXCEPT !.alter = <<>>, !.precision = <<>>, !.ptype = <<>>,
                          !.comma = <<>>, !.decsep = decsep,
                          !.final_expr = swapped])

\* The text cut by trim: preformat[:limit-len(stopchar)] + stopchar, or
\* preformat[:limit]
TrimCut(preformat, limit, stopchar) ==
    IF stopchar # NoneVal /\ stopchar # <<>>
    THEN PySliceTo(preformat, limit - Len(stopchar)) \o stopchar
    ELSE PySliceTo(preformat, limit)

\* Trim
ConvertTrim(v, functions) ==
    LET gf == get_func(functions, <<Names.trim>>, 1)
        arg0 == ArgsGetPos(gf.func.args, 0, <<"1", "0", "0">>)
        limit == PyInt(arg0)
        stopchar == ArgsGetPos(gf.func.args, 1, NoneVal)
        pre == PyFormat(v.final_expr, v.alter \o v.precision \o v.ptype)
    IN  IF ~gf.found THEN Ok([v EXCEPT !.untrimmed = v.final_expr])
        ELSE IF arg0 = NoneVal THEN Raise("TypeError", v)
        ELSE IF limit.exc # "None" THEN Raise(limit.exc, v)
        ELSE IF pre.exc # "None" THEN Raise(pre.exc, v)
        ELSE Ok([v EXCEPT !.final_expr = TrimCut(pre.val, limit.val, stopchar),
                          !.untrimmed = pre.val,
                          !.trimmed = TRUE, !.limit = limit.val,
                          !.alter = <<>>, !.precision = <<>>, !.ptype = <<>>])

\* str(n)
PyStr(n) == IF n < 0 THEN <<"-">> \o IntToStr(0 - n) ELSE IntToStr(n)

\* Width: 'width', 'field', 'canvas' and 'zwidth'
ConvertWidth(v, functions) ==
    LET gf == get_func(functions, <<Names.width, Names.field, Names.canvas, Names.zwidth>>, 1)
        width == gf.func.args.byname[Names.size]
        relative == width # <<>> /\ Head(width) = "+"
        offset == PyInt(Tail(width))
        measured == PyFormat(v.final_expr,
                                v.alter \o v.precision \o v.ptype)
        zero == IF gf.func.name = Names.zwidth THEN <<"0">> ELSE <<>>
    IN  IF ~gf.found THEN Ok(v)
        ELSE IF Names.size \notin DOMAIN gf.func.args.byname
        THEN Raise("KeyError", v)
        ELSE IF width = NoneVal THEN Raise("AttributeError", v)
        ELSE IF ~relative THEN Ok([v EXCEPT !.width = width, !.zero = zero])
        ELSE IF offset.exc # "None" THEN Raise(offset.exc, v)
        ELSE IF measured.exc # "None" THEN Raise(measured.exc, v)
        ELSE Ok([v EXCEPT !.width = PyStr(offset.val + Len(measured.val)),
                          !.zero = zero, !.relative = TRUE,
                          !.offset = offset.val])

\* Multichar filling with replace() without its count: every placeholder
\* takes the first character
RECURSIVE MultiFillNoCount(_, _, _, _)
MultiFillNoCount(conversion, i, n, multifill) ==
    IF i >= n THEN conversion
    ELSE MultiFillNoCount(StrReplaceAll(conversion,
                                        <<MULTICHAR_FILL_PLACEHOLDER>>,
                                        <<multifill[(i % Len(multifill)) + 1]>>),
                          i + 1, n, multifill)
\* Multichar filling: each placeholder, from the left, takes the next
\* character of multifill
RECURSIVE MultiFill(_, _, _, _)
MultiFill(conversion, i, n, multifill) ==
    IF i >= n THEN conversion
    ELSE MultiFill(StrReplace(conversion, <<MULTICHAR_FILL_PLACEHOLDER>>,
                              <<multifill[(i % Len(multifill)) + 1]>>, 1),
                   i + 1, n, multifill)

\* The placeholders that lead the conversion
RECURSIVE LeadingRun(_, _)
LeadingRun(conversion, c) ==
    IF conversion # <<>> /\ Head(conversion) = c
    THEN 1 + LeadingRun(Tail(conversion), c) ELSE 0

RECURSIVE CanvasReplace(_, _, _, _, _)
CanvasReplace(conversion, i, n, chars, n_chars) ==
    IF i >= n THEN conversion
    ELSE CanvasReplace(StrReplace(conversion, <<CANVAS_FILL_PLACEHOLDER>>,
                                  <<chars[(i % n_chars) + 1]>>, 1),
                       i + 1, n, chars, n_chars)

\* Canvas filling with the opening characters on both sides
CanvasFillOpenOnly(conversion, wrapper) ==
    LET half == Len(wrapper) \div 2
        open_chars == PySliceTo(wrapper, half)
        total == StrCount(conversion, CANVAS_FILL_PLACEHOLDER)
    IN  IF total > 0 /\ Len(open_chars) = 0
        THEN [exc |-> "ZeroDivisionError", val |-> conversion]
        ELSE [exc |-> "None",
              val |-> CanvasReplace(conversion, 0, total, open_chars,
                                    Len(open_chars))]
\* Canvas filling
CanvasFill(conversion, wrapper) ==
    LET half == Len(wrapper) \div 2
        open_chars == PySliceTo(wrapper, half)
        close_chars == PySliceFrom(wrapper, half)
        total == StrCount(conversion, CANVAS_FILL_PLACEHOLDER)
        before == LeadingRun(conversion, CANVAS_FILL_PLACEHOLDER)
    IN  IF total > 0 /\ Len(open_chars) = 0
        THEN [exc |-> "ZeroDivisionError", val |-> conversion]
        ELSE [exc |-> "None",
              val |-> CanvasReplace(
                          CanvasReplace(conversion, 0, before, open_chars,
                                        Len(open_chars)),
                          0, total - before, close_chars, Len(open_chars))]

\* fill+align+sign+alter+zero+width+comma+precision+ptype
PythonSpecs(v) ==
    v.fill \o v.align \o v.sign \o v.alter \o v.zero \o v.width \o v.comma
    \o v.precision \o v.ptype

\* D. Wrap: the wrapper of a canvas, or the argument of 'wrap', around the
\* conversion
RenderWrap(v, gw, canvas) ==
    LET wrapper == IF v.wrapper # <<>> THEN v.wrapper
                   ELSE ArgsGetPos(gw.func.args, 0, <<>>)
        half == Len(wrapper) \div 2
    IN  IF canvas.exc # "None" THEN [exc |-> canvas.exc, val |-> <<>>]
        ELSE IF v.wrapper = <<>> /\ ~gw.found THEN canvas
        ELSE IF wrapper = NoneVal THEN [exc |-> "TypeError", val |-> <<>>]
        ELSE [exc |-> "None",
              val |-> PySliceTo(wrapper, half) \o canvas.val
                      \o PySliceFrom(wrapper, half)]

\* Canvas filling of the conversion multi
RenderCanvas(v, functions, multi) ==
    RenderWrap(v, get_func(functions, <<Names.wrap>>, 1),
               IF v.fill = <<CANVAS_FILL_PLACEHOLDER>>
               THEN CanvasFill(multi, v.wrapper)
               ELSE [exc |-> "None", val |-> multi])

\* Multichar filling of the conversion rendered
RenderMulti(v, functions, rendered) ==
    IF rendered.exc # "None" THEN [exc |-> rendered.exc, val |-> <<>>]
    ELSE RenderCanvas(v, functions,
                      IF v.fill = <<MULTICHAR_FILL_PLACEHOLDER>>
                      THEN MultiFill(rendered.val, 0,
                                     StrCount(rendered.val,
                                              MULTICHAR_FILL_PLACEHOLDER),
                                     v.multifill)
                      ELSE rendered.val)

\* C. The conversion, and what is done to it after the render pass
ConvertRender(v, functions) ==
    RenderMulti(v, functions, PyFormat(v.final_expr, PythonSpecs(v)))

\* B. Functions: the k-th of the sections that resolve the fields
ConvertSection(k, v, functions) ==
    CASE k = 1 -> ConvertFill(v, functions)
      [] k = 2 -> ConvertAlign(v, functions)
      [] k = 3 -> ConvertSignPrecision(v, functions)
      [] k = 4 -> ConvertType(v, functions)
      [] k = 5 -> ConvertSeparators(v, functions)
      [] k = 6 -> ConvertTrim(v, functions)
      [] k = 7 -> ConvertWidth(v, functions)

\* The sections from the k-th on, up to the first that raises
RECURSIVE ConvertSections(_, _, _)
ConvertSections(k, r, functions) ==
    IF k > 7 \/ r.exc # "None" THEN r
    ELSE ConvertSections(k + 1, ConvertSection(k, r.v, functions), functions)

\* The fields, in the order convert resolves them
ConvertFields(final_expr, functions) ==
    ConvertSections(1, Ok(ConvertVars(final_expr)), functions)

\* What convert leaves: the conversion or the exception, and, of the
\* expression e, the index and the value
ConvertOut(e, exc, val, v) ==
    [exc |-> exc, conversion |-> val, index |-> e.index,
     name_error |-> e.name_error, consumed |-> e.consumed,
     value |-> e.final_expr, v |-> v]

ConvertRendered(e, v, r) == ConvertOut(e, r.exc, r.val, v)

\* convert from the fields f on
ConvertResolved(e, f, functions) ==
    IF f.exc # "None" THEN ConvertOut(e, f.exc, <<>>, f.v)
    ELSE ConvertRendered(e, f.v, ConvertRender(f.v, functions))

\* convert from the value of the expression e on
ConvertEvaluated(e, functions) ==
    IF e.exc # "None" THEN ConvertOut(e, e.exc, <<>>, ConvertVars(<<>>))
    ELSE ConvertResolved(e, ConvertFields(e.final_expr, functions), functions)

\* HumanFormatter.convert(parsed_token): the conversion, the exception that
\* leaves it, and _positional_args_index as it leaves it
convert(positional_args_index, expression, functions, given_args) ==
    ConvertEvaluated(
        ConvertExpression(positional_args_index, expression, given_args),
        functions)

\* ------------------------------------------------------------------------
\* hformat.py: HumanFormatter.format
\* ------------------------------------------------------------------------
\* The keys of a dict, largest first
RECURSIVE KeysDescending(_)
KeysDescending(keys) ==
    IF keys = {} THEN <<>>
    ELSE LET m == CHOOSE k \in keys : \A j \in keys : j <= k
         IN  <<m>> \o KeysDescending(keys \ {m})

\* The levels as sorted() gives them without reverse=True
LevelsAscending(tokens_list) ==
    [k \in 1..Cardinality(DOMAIN tokens_list) |->
        KeysDescending(DOMAIN tokens_list)
            [Cardinality(DOMAIN tokens_list) + 1 - k]]
\* sorted(tokens_list.items(), key=lambda i: i[0], reverse=True): the levels
LevelsSorted(tokens_list) == KeysDescending(DOMAIN tokens_list)

\* The (level, token) pairs in the order the two loops of format reach them
RECURSIVE LoopOrder(_, _, _)
LoopOrder(tokens_list, levels, k) ==
    IF k > Len(levels) THEN <<>>
    ELSE [j \in 1..Len(tokens_list[levels[k]]) |->
             [level |-> levels[k], id |-> tokens_list[levels[k]][j]]]
         \o LoopOrder(tokens_list, levels, k + 1)

\* tokens_sorted, flattened, of tokens_list
TokensSorted(tokens_list) ==
    LoopOrder(tokens_list, LevelsSorted(tokens_list), 1)

\* tokens_list = main_token.list() to tokens_sorted
FormatListed(main_token) ==
    IF main_token.exc # "None"
    THEN [exc |-> main_token.exc, pos |-> main_token.pos,
          nodes |-> <<>>, todo |-> <<>>]
    ELSE [exc |-> "None", pos |-> -1, nodes |-> main_token.nodes,
          todo |-> TokensSorted(TokenList(main_token.nodes, 1))]

\* main_token = Token(format_string) to tokens_sorted
FormatTokens(format_string) == FormatListed(TokenInit(format_string, 0, 0, 1))

\* No level taken for the original string
IsOriginalNever(level) == FALSE
\* if level == 0: the original string is not converted
IsOriginal(level) == level = 0

\* What a turn of the loops did, for the token it took: the text after
\* replace_child_conversions, what parse and convert made of it, and the
\* index and the table before the turn.
NoStep ==
    [id |-> 0, level |-> -1, text |-> <<>>, parsed |-> FALSE,
     converted |-> FALSE, expression |-> <<>>, safe_string |-> <<>>,
     name_error |-> FALSE, consumed |-> FALSE, index_before |-> 0,
     value |-> <<>>, v |-> ConvertVars(<<>>), childs_ready |-> TRUE,
     fdefs_before |-> FdefsNone]

\* What a turn leaves
TurnResult(exc, msg, final, nodes, index, fdefs, step) ==
    [exc |-> exc, msg |-> msg, final |-> final, nodes |-> nodes,
     index |-> index, fdefs |-> fdefs, step |-> step]

\* token.conversion = self.convert(parsed_token), for the outcome c
TurnConverted(nodes, cur, fdefs, parsed, c) ==
    IF c.exc # "None"
    THEN TurnResult(c.exc, "convert", NoneVal, nodes, c.index, fdefs,
                    [parsed EXCEPT !.name_error = c.name_error,
                                   !.consumed = c.consumed,
                                   !.value = c.value, !.v = c.v])
    ELSE TurnResult("None", "None", c.conversion,
                    [nodes EXCEPT ![cur.id].conversion = c.conversion],
                    c.index, fdefs,
                    [parsed EXCEPT !.name_error = c.name_error,
                                   !.consumed = c.consumed,
                                   !.value = c.value, !.v = c.v,
                                   !.converted = TRUE])

\* parsed_token = self.parse(token.token), for the outcome p
TurnParsed(nodes, cur, index, given_args, base, p) ==
    IF p.exc # "None"
    THEN TurnResult(p.exc, p.msg, NoneVal, nodes, index, p.fdefs,
                    [base EXCEPT !.safe_string = p.safe_string])
    ELSE TurnConverted(nodes, cur, p.fdefs,
                       [base EXCEPT !.parsed = TRUE,
                                    !.safe_string = p.safe_string,
                                    !.expression = p.expression],
                       convert(index, p.expression, p.functions, given_args))

\* token.replace_child_conversions(), for the outcome sub
TurnReplaced(nodes, cur, index, fdefs, file_ok, given_args, rand, base, sub) ==
    IF sub.exc # "None"
    THEN TurnResult(sub.exc, "child", NoneVal, nodes, index, fdefs, base)
    ELSE IF IsOriginal(cur.level)
    THEN TurnResult("None", "None", sub.val, nodes, index, fdefs,
                    [base EXCEPT !.text = sub.val])
    ELSE TurnParsed(nodes, cur, index, given_args,
                    [base EXCEPT !.text = sub.val],
                    parse(fdefs, file_ok, sub.val, rand))

\* The record of a turn before it does anything
TurnBase(nodes, cur, index, fdefs) ==
    [NoStep EXCEPT !.id = cur.id, !.level = cur.level,
                   !.index_before = index, !.fdefs_before = fdefs,
                   !.childs_ready =
                       \A k \in 1..Len(nodes[cur.id].childs) :
                           nodes[nodes[cur.id].childs[k]].conversion
                               # NoneVal]

\* One turn of the loops of format, for the (level, token) pair cur.  step
\* records what the turn did.
FormatTurn(nodes, cur, index, fdefs, file_ok, given_args, rand) ==
    TurnReplaced(nodes, cur, index, fdefs, file_ok, given_args, rand,
                 TurnBase(nodes, cur, index, fdefs),
                 replace_child_conversions(nodes, cur.id))

\* ------------------------------------------------------------------------
\* The inputs of the model
\* ------------------------------------------------------------------------
TemplateChars == {"{", "}", "a", ":", "!"}

\* Templates with function calls, nesting and positional references
LongTemplates ==
    { <<"{", "{", "}", "}">>,
      <<"{", "{", "a", "}", "}">>,
      <<"{", "{", "{", "a", "}", "}", "}">>,
      <<"{", "{", "a", "}", "{", "}", "}">>,
      <<"{", "a", "{", "a", "}", "}">>,
      <<"{", "{", "{", "}", "}", ":", "}">>,
      <<"{", "!", "{", "a", "}", "}">>,
      <<"{", "a", ":", "b", ":", "a", "}">>,
      <<"{", ":", ":", "}">>,
      <<"{", "5", "}">>,
      <<"{", "1", "}">>,
      <<"{", "}", "{", "}">>,
      <<"{", "}", "{", "}", "{", "}">>,
      <<"{", ":", "w", "(", "{", "}", ")", "}">>,
      <<"{", "a", "b", "c", "d", "e", "f", ":", "t", "r", "i", "m", "(", "3", ")", ",", "w", "i", "d", "t", "h", "(", "+", "2", ")", "}">>,
      <<"{", "a", "b", "c", "d", "e", "f", ":", "t", "r", "i", "m", "(", "3", ")", ",", "w", "(", "+", "2", ")", "}">>,
      <<"{", "a", "b", "c", "d", "e", "f", ":", "t", "r", "i", "m", "(", "9", ")", ",", "w", "i", "d", "t", "h", "(", "+", "2", ")", "}">>,
      <<"{", "a", "b", "c", "d", "e", "f", ":", "t", "r", "i", "m", "(", "3", ")", "}">>,
      <<"{", "a", "b", "c", "d", "e", "f", ":", "t", "r", "i", "m", "(", "4", ",", ".", ".", ")", ",", "w", "(", "+", "1", ")", "}">>,
      <<"{", "a", "b", "c", "d", "e", "f", ":", "w", "i", "d", "t", "h", "(", "+", "2", ")", "}">>,
      <<"{", "a", "b", "c", "d", "e", "f", ":", "w", "(", "+", "2", ")", "}">>,
      <<"{", "a", "b", "c", "d", "e", "f", ":", "w", "i", "d", "t", "h", "(", "8", ")", ",", "r", "i", "g", "h", "t", "}">>,
      <<"{", "a", "b", "c", "d", "e", "f", ":", "w", "i", "d", "t", "h", "(", "8", ")", ",", "r", "}">>,
      <<"{", "a", "b", "c", "d", "e", "f", ":", "w", "(", "8", ")", ";", "c", "e", "n", "t", "e", "r", "}">>,
      <<"{", "a", "b", "c", "d", "e", "f", ":", "w", "(", "8", ")", ";", "c", "}">>,
      <<"{", "a", "b", "c", "d", "e", "f", ":", "f", "i", "e", "l", "d", "(", "8", ",", "-", ",", ">", ")", "}">>,
      <<"{", "a", "b", "c", "d", "e", "f", ":", "f", "i", "e", "l", "d", "(", "9", ",", "-", "=", ",", "^", ")", "}">>,
      <<"{", "a", ":", "w", "}">>,
      <<"{", "a", ":", "w", "(", "1", ",", "2", ")", "}">>,
      <<"{", "a", ":", "t", "r", "i", "m", "(", "1", ",", "2", ",", "3", ")", "}">>,
      <<"{", "a", ":", "z", "z", "}">>,
      <<"{", "{", "a", "}", ":", "w", "(", "3", ")", "}">>,
      <<"{", ":", "s", "i", "g", "n", ",", "w", "(", "+", "4", ")", "}">>,
      <<"{", ":", "w", "(", "+", "4", ")", "}">>,
      <<"{", ":", "s", "i", "g", "n", ",", "w", "(", "6", ")", "}">>,
      <<"{", "a", "b", "c", "d", "e", "f", ":", "f", "i", "e", "l", "d", "(", "1", "1", ",", "-", "=", ",", ">", ")", "}">>,
      <<"{", "a", ":", "f", "i", "l", "l", "(", "-", "=", ")", ",", "w", "(", "7", ")", ",", "c", "}">>,
      <<"{", "a", "b", "c", "d", "e", "f", ":", "c", "a", "n", "v", "a", "s", "(", "1", "0", ",", "<", ">", ",", "^", ")", "}">>,
      <<"{", "a", "b", "c", "d", "e", "f", ":", "c", "a", "n", "v", "a", "s", "(", "1", "2", ",", "<", "[", "]", ">", ",", "^", ")", "}">>,
      <<"{", "a", "b", "c", "d", "e", "f", ":", "c", "a", "n", "v", "a", "s", "(", "1", "0", ",", "<", ">", ")", "}">>,
      <<"{", "a", "b", "c", "d", "e", "f", ":", "c", "a", "n", "v", "a", "s", "(", "1", "0", ",", ")", "}">>,
      <<"{", "a", "b", "c", "d", "e", "f", ":", "c", "a", "n", "v", "a", "s", "(", "1", "0", ",", "<", "-", ">", ",", "^", ")", "}">>,
      <<"{", "}", "{", "b", "}">>,
      <<"{", "b", "}", "{", "}">>,
      <<"{", "'", "!", "a", "'", "}">>,
      <<"{", "!", "a", "!", "b", "}">>,
      <<"{", "a", "b", "c", "d", "e", "f", ":", "t", "r", "i", "m", "(", "1", ",", ".", ".", ")", "}">>,
      <<"{", "a", " ", "{", "b", "}">>,
      <<"{", "b", "}", " ", "{", "a", " ", "{", "b", "}">> }

\* n escaped characters, each followed by a character that is not escaped
RECURSIVE EscapeRun(_)
EscapeRun(n) ==
    IF n = 0 THEN <<>> ELSE <<"!", "a", "x">> \o EscapeRun(n - 1)

\* n quoted substrings
RECURSIVE QuoteRun(_)
QuoteRun(n) ==
    IF n = 0 THEN <<>> ELSE <<"'", "a", "'">> \o QuoteRun(n - 1)

\* Strings given to after and to between of a handler used directly
AfterTexts == { EscapeRun(MaxRun) }
BetweenTexts == { QuoteRun(MaxRun + 1) }

Templates ==
    (UNION { [1..n -> TemplateChars] : n \in 0..MaxLen }) \cup LongTemplates

\* Templates of the calls that follow the first call on an instance
RepeatTemplates ==
    { <<"{", "}">>, <<"{", "}", "{", "}">>, <<"{", "a", "}">>,
      <<"{", "{", "}", "}">>, <<"a">> }

\* *args and **kwargs of a call; <<"int", "5">> is the int 5
GivenArgs ==
    { [args |-> <<>>, kwargs |-> <<>>],
      [args |-> << <<"p">> >>, kwargs |-> <<>>],
      [args |-> << <<"p">>, <<"q">> >>,
       kwargs |-> (<<"a">> :> <<"v", "w">>)],
      [args |-> << <<"int", "5">> >>, kwargs |-> <<>>],
      [args |-> << <<"{", "b", "}">> >>, kwargs |-> <<>>] }

\* Names given to a FunctionObject: every name of the table and one more
FunctionNames ==
    (DOMAIN LoadGroups(<<>>, FunctionsYml, 1)) \cup {<<"z", "z">>}

FunctionArgs == UNION { [1..n -> {<<"1">>}] : n \in 0..MaxArgs }

\* ------------------------------------------------------------------------
\* The state
\* ------------------------------------------------------------------------
VARIABLES
    fdefs,                  \* FunctionObject._fdefs, of the class
    file_ok,                \* whether the resource functions.yml can be read
    positional_args_index,  \* HumanFormatter._positional_args_index
    original,               \* HumanFormatter.original
    given_args,             \* HumanFormatter.given_args
    nodes,                  \* the Token tree of the call
    todo,                   \* what is left of the loops over tokens_sorted
    final,                  \* the local variable final of format
    pc,                     \* "idle", "loop", "returned", "raised", "built"
    err,                    \* the exception that left the call
    ncalls,                 \* format() calls made on the instance
    fobj,                   \* the outcome of the last FunctionObject(...)
    step,                   \* what the last turn of the loops did
    start,                  \* the index and the table at the start of the call
    assigned,               \* for each token, the times its conversion was set
    taken,                  \* for each token, the positional index it took
    handler                 \* a PlaceholderHandler used through its methods

formatter_vars ==
    <<fdefs, file_ok, positional_args_index, original, given_args, nodes,
      todo, final, pc, err, ncalls, fobj, step, start, assigned, taken>>

vars == <<formatter_vars, handler>>

\* No PlaceholderHandler is in use outside parse
NoHandler == NewPlaceholderHandler(<<>>)

NoErr == [exc |-> "None", msg |-> "None", pos |-> -1]
NoFobj == [called |-> FALSE, given_name |-> <<>>, n_given |-> 0,
           exc |-> "None", msg |-> "None", name |-> <<>>, args |-> NoArgs]
NoGivenArgs == [args |-> <<>>, kwargs |-> <<>>]

\* No HumanFormatter has been made yet
FormatterIdle ==
    /\ fdefs = FdefsNone
    /\ file_ok \in BOOLEAN
    /\ positional_args_index = 0
    /\ original = <<>>
    /\ given_args = NoGivenArgs
    /\ nodes = <<>>
    /\ todo = <<>>
    /\ final = NoneVal
    /\ pc = "idle"
    /\ err = NoErr
    /\ ncalls = 0
    /\ fobj = NoFobj
    /\ step = NoStep
    /\ start = [index |-> 0, fdefs |-> FdefsNone]
    /\ assigned = <<>>
    /\ taken = <<>>

Init ==
    /\ FormatterIdle
    /\ handler = NoHandler

\* hf = HumanFormatter(): a new instance takes the place of the old one
NewHumanFormatter ==
    /\ pc # "loop"
    /\ positional_args_index' = 0
    /\ original' = <<>>
    /\ given_args' = NoGivenArgs
    /\ nodes' = <<>>
    /\ todo' = <<>>
    /\ final' = NoneVal
    /\ pc' = "idle"
    /\ err' = NoErr
    /\ ncalls' = 0
    /\ fobj' = NoFobj
    /\ step' = NoStep
    /\ start' = [index |-> 0, fdefs |-> fdefs]
    /\ assigned' = <<>>
    /\ taken' = <<>>
    /\ UNCHANGED handler
    /\ UNCHANGED <<fdefs, file_ok>>

\* hf.format(format_string, *args, **kwargs) up to the loops
Format(format_string, ga) ==
    /\ pc \in {"idle", "returned", "raised"}
    /\ ncalls < MaxCalls
    /\ \E tk \in {FormatTokens(format_string)} :
           /\ nodes' = tk.nodes
           /\ todo' = tk.todo
           /\ assigned' = [i \in 1..Len(tk.nodes) |-> 0]
           /\ taken' = [i \in 1..Len(tk.nodes) |-> -1]
           /\ UNCHANGED handler
           /\ pc' = IF tk.exc # "None" THEN "raised" ELSE "loop"
           /\ err' = [exc |-> tk.exc, msg |-> "token", pos |-> tk.pos]
    /\ original' = format_string
    /\ given_args' = ga
    /\ final' = NoneVal
    /\ ncalls' = ncalls + 1
    /\ fobj' = NoFobj
    /\ step' = NoStep
    /\ start' = [index |-> positional_args_index, fdefs |-> fdefs]
    /\ UNCHANGED <<fdefs, file_ok, positional_args_index>>

\* One turn of the loops of format; after the last one format returns
Turn(rand) ==
    /\ pc = "loop"
    /\ \E t \in {FormatTurn(nodes, Head(todo), positional_args_index, fdefs,
                            file_ok, given_args, rand)} :
           /\ nodes' = t.nodes
           /\ todo' = Tail(todo)
           /\ final' = t.final
           /\ positional_args_index' = t.index
           /\ fdefs' = t.fdefs
           /\ step' = t.step
           /\ assigned' = IF t.step.converted
                          THEN [assigned EXCEPT ![Head(todo).id] = @ + 1]
                          ELSE assigned
           /\ taken' = IF t.step.consumed
                       THEN [taken EXCEPT ![Head(todo).id] = t.step.index_before]
                       ELSE taken
           /\ UNCHANGED handler
           /\ err' = [exc |-> t.exc, msg |-> t.msg, pos |-> -1]
           /\ pc' = IF t.exc # "None" THEN "raised"
                    ELSE IF Tail(todo) = <<>> THEN "returned"
                    ELSE "loop"
    /\ UNCHANGED <<file_ok, original, given_args, ncalls, fobj, start>>

\* FunctionObject(name, args), constructed before the calls on an instance.
\* The model goes on from the object with another one or a new formatter.
NewFunctionObject(name, args) ==
    /\ pc \in {"idle", "built"}
    /\ \E fo \in {FunctionObject(fdefs, file_ok, name, args)} :
           /\ fdefs' = fo.fdefs
           /\ fobj' = [called |-> TRUE, given_name |-> name,
                       n_given |-> Len(args), exc |-> fo.exc, msg |-> fo.msg,
                       name |-> fo.name, args |-> fo.args]
           /\ start' = [index |-> positional_args_index, fdefs |-> fo.fdefs]
    /\ original' = <<>>
    /\ given_args' = NoGivenArgs
    /\ nodes' = <<>>
    /\ todo' = <<>>
    /\ final' = NoneVal
    /\ pc' = "built"
    /\ err' = NoErr
    /\ step' = NoStep
    /\ assigned' = <<>>
    /\ taken' = <<>>
    /\ UNCHANGED handler
    /\ UNCHANGED <<file_ok, positional_args_index, ncalls>>

\* The first call on an instance takes any template of the model
CallTemplates == IF ncalls = 0 THEN Templates ELSE RepeatTemplates

Next ==
    \/ NewHumanFormatter
    \/ \E format_string \in CallTemplates, ga \in GivenArgs :
           Format(format_string, ga)
    \/ \E rand \in RandomDraws : Turn(rand)
    \/ \E name \in FunctionNames, args \in FunctionArgs :
           NewFunctionObject(name, args)

Spec == Init /\ [][Next]_vars

\* ------------------------------------------------------------------------
\* A PlaceholderHandler used through its methods, on several strings
\* ------------------------------------------------------------------------
\* handler = PlaceholderHandler(), with no HumanFormatter at work
InitHandler ==
    /\ FormatterIdle
    /\ file_ok
    /\ \E rand \in RandomDraws : handler = NewPlaceholderHandler(rand)

\* handler.after(string, '!', 1)
HandlerAfter(string) ==
    /\ \E r \in {after(handler, string, ESCAPE_CHAR, {}, 1)} :
           /\ r.h.made <= MaxMarkers
           /\ handler' = r.h
    /\ UNCHANGED formatter_vars

\* handler.between(string, "'")
HandlerBetween(string) ==
    /\ \E r \in {between(handler, string, "'", "'")} :
           /\ r.h.made <= MaxMarkers
           /\ handler' = r.h
    /\ UNCHANGED formatter_vars

NextHandler ==
    \/ \E string \in AfterTexts : HandlerAfter(string)
    \/ \E string \in BetweenTexts : HandlerBetween(string)

SpecHandler == InitHandler /\ [][NextHandler]_vars

\* Every expression the model evaluates is one PyEval models.
EvalModelled == err.exc # "Unmodelled"

\* ------------------------------------------------------------------------
\* The claims
\* ------------------------------------------------------------------------
HasBrace(s) == \E i \in 1..Len(s) : s[i] \in {"{", "}"}

\* C1: a format call on a template that holds neither '{' nor '}' raises
\* nothing and returns the template unchanged, whatever positional and
\* named arguments it is given.
C1_BraceFreeUnchanged ==
    (pc \in {"loop", "returned", "raised"} /\ ~HasBrace(original)) =>
        /\ pc # "raised"
        /\ pc = "returned" => final = original

\* A call with arguments has returned a template with no brace but with the
\* name of a keyword argument and the ':' of a spec list in it.
C1_Witness ==
    /\ pc = "returned"
    /\ ~HasBrace(original)
    /\ \E i \in 1..Len(original) : original[i] = ":"
    /\ \E i \in 1..Len(original) : <<original[i]>> \in DOMAIN given_args.kwargs
    /\ given_args.args # <<>>
    /\ final = original

\* Every child of the token id has a conversion
ChildsConverted(id) ==
    \A k \in 1..Len(nodes[id].childs) :
        nodes[nodes[id].childs[k]].conversion # NoneVal

\* C2: when replace_child_conversions is called on a token, each of its
\* children has a conversion already: it was so for the token of the last
\* turn, it is so for the token of the next turn, and format never raises
\* the RuntimeError of a child that is not converted.
C2_ChildrenFirst ==
    /\ step.childs_ready
    /\ err.exc # "RuntimeError"
    /\ pc = "loop" => ChildsConverted(Head(todo).id)

\* A call on a template nested three deep has returned.
C2_Witness ==
    /\ pc = "returned"
    /\ \E i \in 1..Len(nodes) : nodes[i].gen = 3
    /\ step.id = 1
    /\ Len(nodes[1].childs) > 0

\* C3: a format call whose token tree cannot be built, because of a '}'
\* with no '{' open, is left by a SyntaxError that carries the position of
\* that '}', before any token is parsed or converted.
C3_UnmatchedCloseSyntaxError ==
    (pc = "raised" /\ err.msg = "token") =>
        /\ err.exc = "SyntaxError"
        /\ err.pos >= 0
        /\ step = NoStep

\* C4: the template {!{a}}, whose inner braces follow the escape character,
\* is rendered as {a}, with no error.
C4_EscapedBraceLiteral ==
    (/\ original = <<"{", "!", "{", "a", "}", "}">>
     /\ pc \in {"returned", "raised"}) =>
        /\ pc = "returned"
        /\ final = <<"{", "a", "}">>

\* C5: parse does not fail because the masked text of a token has two or
\* more ':' in it: the text is split at the first one.
C5_SplitAtFirstColon ==
    (step.level > 0 /\ StrCount(step.safe_string, ":") >= 2) =>
        ~(pc = "raised" /\ err.msg = "split_colon")

\* The number of arguments the table declares mandatory for the name
DeclaredMandatory(name) ==
    Cardinality({k \in 1..Len(fdefs.defs[name].args) :
                    fdefs.defs[name].args[k][2] = Names.man})

\* C6: FunctionObject(name, args) with a name of the table succeeds exactly
\* when mandatory <= len(args) <= declared; with more arguments it raises
\* the TypeError of too many arguments, with fewer the TypeError of too few.
C6_ArityWindow ==
    (fobj.called /\ fobj.given_name \in DOMAIN fdefs.defs) =>
        /\ fobj.exc = "None" <=>
               /\ DeclaredMandatory(fobj.given_name) <= fobj.n_given
               /\ fobj.n_given <= Len(fdefs.defs[fobj.given_name].args)
        /\ fobj.n_given > Len(fdefs.defs[fobj.given_name].args) =>
               fobj.exc = "TypeError" /\ fobj.msg = "too_many"
        /\ fobj.n_given < DeclaredMandatory(fobj.given_name) =>
               fobj.exc = "TypeError" /\ fobj.msg = "too_few"

\* trim, with one mandatory and one optional argument, was built with two.
C6_Witness ==
    /\ fobj.called
    /\ fobj.given_name = Names.trim
    /\ Names.trim \in DOMAIN fdefs.defs
    /\ DeclaredMandatory(Names.trim) = 1
    /\ Len(fdefs.defs[Names.trim].args) = 2
    /\ fobj.n_given = 2
    /\ fobj.exc = "None"

\* The pairs of different names that the table gives the same id
AliasPairs ==
    { pr \in (DOMAIN fdefs.defs) \X (DOMAIN fdefs.defs) :
          pr[1] # pr[2] /\ fdefs.defs[pr[1]].id = fdefs.defs[pr[2]].id }

\* The function name n is written at place i of the text of a token: after
\* the ':', outside the parentheses of the arguments, between delimiters
NameWrittenAt(text, n, i) ==
    /\ i > 1
    /\ StartsWithAt(text, n, i)
    /\ text[i - 1] \in {":", ",", ";", " "}
    /\ \/ i + Len(n) > Len(text)
       \/ text[i + Len(n)] \in {"(", ",", ";", " "}
    /\ \E j \in 1..(i - 1) : text[j] = ":"
    /\ StrCount(SubSeq(text, 1, i - 1), "(")
           = StrCount(SubSeq(text, 1, i - 1), ")")

\* The texts that differ from text in one function name, written as another
\* name of the same id
AliasVariants(text) ==
    UNION { { SubSeq(text, 1, i - 1) \o pr[2]
                  \o SubSeq(text, i + Len(pr[1]), Len(text)) :
              i \in {j \in 1..Len(text) : NameWrittenAt(text, pr[1], j)} } :
            pr \in AliasPairs }

\* The exception and the conversion of a token
Outcome(exc, conversion) ==
    [exc |-> exc, conversion |-> IF exc = "None" THEN conversion ELSE NoneVal]

ConvertOutcome(c) == Outcome(c.exc, c.conversion)

ParseOutcome(p) ==
    IF p.exc # "None" THEN Outcome(p.exc, NoneVal)
    ELSE ConvertOutcome(convert(step.index_before, p.expression, p.functions,
                                given_args))

\* What parse and convert make of text where the last turn started
AliasOutcome(text, rand) ==
    ParseOutcome(parse(step.fdefs_before, file_ok, text, rand))

\* What the last turn made of its token
StepOutcome ==
    Outcome(err.exc, IF err.exc = "None" THEN nodes[step.id].conversion
                     ELSE NoneVal)

\* C7: a token and the token that differs from it only in a function name
\* written as an alias of the same id, parsed and converted with the same
\* arguments and the same index, are left by the same exception or have the
\* same conversion.
C7_AliasesConvertAlike ==
    (pc \in {"loop", "returned", "raised"} /\ step.level > 0) =>
        \A text \in AliasVariants(step.text) : \A rand \in RandomDraws :
            AliasOutcome(text, rand) = StepOutcome

\* A token written with an alias was converted, and its width was applied.
C7_Witness ==
    /\ pc \in {"loop", "returned"}
    /\ step.converted
    /\ AliasVariants(step.text) # {}
    /\ step.v.width # <<>>
    /\ Len(nodes[step.id].conversion) > Len(step.value)

\* C8: in every format call, the first token with an empty expression that
\* is converted takes the positional argument 0.
C8_IndexResetEachCall ==
    (step.consumed /\ step.index_before = start.index) =>
        step.index_before = 0

\* C9: when the evaluation of the expression of a token raises NameError,
\* the value is the text of the expression as the token has it.
C9_NameErrorKeepsWrittenText ==
    (step.parsed /\ step.name_error) => step.value = step.expression

\* C10: for a token with trim and a relative width '+k', the width of the
\* render is k plus the length of the value as it renders untrimmed.
C10_RelativeWidthUntrimmed ==
    (step.v.trimmed /\ step.v.relative) =>
        PyInt(step.v.width).val = step.v.offset + Len(step.v.untrimmed)

\* C11: when a relative width '+k' was resolved, with no trim, no wrapper
\* and no custom separators, the conversion is k characters longer than the
\* value rendered with the sign, the alternate form, the precision and the
\* type that convert resolved, and no width.
C11_RelativeWidthAddsOffset ==
    (/\ step.converted
     /\ step.v.relative
     /\ ~step.v.trimmed
     /\ step.v.wrapper = <<>>
     /\ step.v.decsep = <<>>
     /\ step.v.offset >= 0) =>
        Len(nodes[step.id].conversion)
            = step.v.offset
              + Len(PyFormat(step.value,
                             step.v.sign \o step.v.alter \o step.v.precision
                                 \o step.v.ptype).val)

\* The number of c among the first n characters of s
CountBefore(s, c, n) == StrCount(SubSeq(s, 1, n), c)

\* conv is rendered with its i-th placeholder c, counted from 0 and from the
\* left, replaced by chars[i mod len(chars)], and nothing else changed
FilledCyclically(conv, rendered, c, chars) ==
    /\ Len(conv) = Len(rendered)
    /\ \A p \in 1..Len(rendered) :
           conv[p] = IF rendered[p] = c
                     THEN chars[(CountBefore(rendered, c, p - 1) % Len(chars)) + 1]
                     ELSE rendered[p]
    /\ StrCount(conv, c) = 0

\* C12: when the fill of a converted token has more than one character, the
\* conversion is the text of the render pass with its i-th fill position
\* from the left, on both sides of the value, holding fill[i mod len(fill)],
\* and no placeholder of the multichar fill is left in it.
C12_MultiFillCycles ==
    (step.converted /\ step.v.fill = <<MULTICHAR_FILL_PLACEHOLDER>>) =>
        FilledCyclically(nodes[step.id].conversion,
                         PyFormat(step.v.final_expr, PythonSpecs(step.v)).val,
                         MULTICHAR_FILL_PLACEHOLDER, step.v.multifill)

\* The fill "-=" was put in five fill positions, as '-', '=', '-', '=', '-'.
C12_Witness ==
    /\ step.converted
    /\ step.v.multifill = <<"-", "=">>
    /\ StrCount(PyFormat(step.v.final_expr, PythonSpecs(step.v)).val,
                MULTICHAR_FILL_PLACEHOLDER) = 5
    /\ nodes[step.id].conversion
           = <<"-", "=", "-", "=", "-", "a", "b", "c", "d", "e", "f">>

\* The number of characters c that lead s
LeadCount(s, c) ==
    Cardinality({p \in 1..Len(s) : \A q \in 1..p : s[q] = c})

\* filled is rendered with the run of placeholders c that leads it replaced
\* cyclically by open and every other placeholder, counted from the end of
\* that run, cyclically by close
CanvasFilled(filled, rendered, c, open, close) ==
    /\ Len(filled) = Len(rendered)
    /\ \A p \in 1..Len(rendered) :
           filled[p] =
               IF rendered[p] # c THEN rendered[p]
               ELSE IF p <= LeadCount(rendered, c)
               THEN open[((p - 1) % Len(open)) + 1]
               ELSE close[((CountBefore(rendered, c, p - 1)
                               - LeadCount(rendered, c)) % Len(close)) + 1]
    /\ StrCount(filled, c) = 0

\* conv without the n characters that wrap it on each side
Unwrapped(conv, n) == SubSeq(conv, n + 1, Len(conv) - n)

TurnsOutcome(x, y, t) ==
    [exc |-> t.exc, x |-> t.nodes[x.id].conversion,
     y |-> t.nodes[y.id].conversion]

\* The turn of the token second after the turn t of another token
TurnAfter(second, rand, t) ==
    IF t.exc # "None" THEN t
    ELSE FormatTurn(t.nodes, second, t.index, t.fdefs, file_ok, given_args,
                    rand)

\* The turns of first and then of second, from the state as it is
TurnsInOrder(first, second, rand) ==
    TurnAfter(second, rand,
              FormatTurn(nodes, first, positional_args_index, fdefs, file_ok,
                         given_args, rand))

\* C14: when the next two tokens of the loops are of the same level and
\* their turns, taken left to right, raise nothing, their turns taken in
\* the other order give each of the two the same conversion.
C14_SameLevelAnyOrder ==
    (/\ pc = "loop"
     /\ Len(todo) >= 2
     /\ todo[1].level > 0
     /\ todo[2].level = todo[1].level) =>
        \A rand \in RandomDraws :
            TurnsInOrder(todo[1], todo[2], rand).exc = "None" =>
                TurnsOutcome(todo[1], todo[2],
                             TurnsInOrder(todo[2], todo[1], rand))
                    = TurnsOutcome(todo[1], todo[2],
                                   TurnsInOrder(todo[1], todo[2], rand))

\* The place of the '}' that closes the brace open before place i, where
\* depth braces are open; 0 if there is none
RECURSIVE ClosingBrace(_, _, _)
ClosingBrace(text, i, depth) ==
    IF i > Len(text) THEN 0
    ELSE IF text[i] = "{" THEN ClosingBrace(text, i + 1, depth + 1)
    ELSE IF text[i] = "}"
    THEN IF depth = 1 THEN i ELSE ClosingBrace(text, i + 1, depth - 1)
    ELSE ClosingBrace(text, i + 1, depth)

\* text from place i on, with each outermost brace region replaced by the
\* conversion of the child it made: the k-th of convs for the next one
RECURSIVE RegionsReplaced(_, _, _, _)
RegionsReplaced(text, i, k, convs) ==
    IF i > Len(text) THEN <<>>
    ELSE IF text[i] # "{"
    THEN <<text[i]>> \o RegionsReplaced(text, i + 1, k, convs)
    ELSE IF ClosingBrace(text, i + 1, 1) = 0
    THEN SubSeq(text, i, Len(text))
    ELSE convs[k] \o RegionsReplaced(text, ClosingBrace(text, i + 1, 1) + 1,
                                     k + 1, convs)

\* C15: the text replace_child_conversions returned in the last turn is the
\* raw text of the token with the brace region of each child replaced by
\* the conversion of that child, and nothing else changed.
C15_ChildRegionsReplaced ==
    (step.id > 0 /\ err.msg # "child") =>
        step.text
            = RegionsReplaced(nodes[step.id].token, 1, 1,
                              [k \in 1..Len(nodes[step.id].childs) |->
                                  nodes[nodes[step.id].childs[k]].conversion])

\* C16: in a format call no conversion is set twice and the token of
\* level 0 is neither parsed nor converted; when the call returns, every
\* token of level 1 or more had its conversion set once, the conversion of
\* the token of level 0 is None, and the value returned is what
\* replace_child_conversions gives for that token.
C16_ConvertedOnceRootNever ==
    /\ \A i \in 1..Len(assigned) : assigned[i] <= 1
    /\ step.level = 0 => ~step.parsed /\ ~step.converted
    /\ pc \in {"loop", "returned"} =>
           assigned[1] = 0 /\ nodes[1].conversion = NoneVal
    /\ pc = "returned" =>
           /\ \A i \in 2..Len(nodes) :
                  assigned[i] = 1 /\ nodes[i].conversion # NoneVal
           /\ step.id = 1
           /\ final = replace_child_conversions(nodes, 1).val

\* A call on a template with a token of level 2 inside a token of level 1
\* has returned, given some argument.
C16_Witness ==
    /\ pc = "returned"
    /\ Len(nodes) >= 3
    /\ \E i \in 1..Len(nodes) : nodes[i].gen = 2
    /\ given_args.args # <<>>
    /\ \A i \in 2..Len(nodes) : assigned[i] = 1

\* What revert, delimiters kept, makes of a masked text
RevertMasked(masked) == revert(masked.h, masked.string, FALSE)

\* No character that a marker is made of is in the string
NoMarkerText(string) ==
    \A i \in 1..Len(string) :
        \A k \in 1..Len(DEFAULT_SAFE_CHARS) : string[i] # DEFAULT_SAFE_CHARS[k]

\* C17: the text of a token that parse takes, when it holds no marker text,
\* is what revert, delimiters kept, gives back after the masks of parse
\* (after for the escaped characters, then between for the quoted
\* substrings), whatever the random characters of the markers are.
C17_MaskingReversible ==
    (step.level > 0 /\ err.msg # "child" /\ NoMarkerText(step.text)) =>
        \A rand \in RandomDraws :
            RevertMasked(ParseMask(step.text, rand)) = step.text

\* The first mask of parse: after(token, ESCAPE_CHAR, 1) on a new handler
MaskEscaped(token, rand) ==
    after(NewPlaceholderHandler(rand), token, ESCAPE_CHAR, {}, 1)

\* No escape character is left in the masked text, and no marker hides
\* more than the one character after its escape character
EscapesMasked(esc) ==
    /\ \A i \in 1..Len(esc.string) : esc.string[i] # ESCAPE_CHAR
    /\ \A k \in 1..Len(esc.h._current_placeholders) :
           Len(esc.h._current_placeholders[k].hidden) <= 1

\* C18: on the text of a token that parse takes, after(text, '!', 1) masks
\* every escape character with the one character that follows it, also
\* when an escape follows another directly: no '!' is left unmasked.
C18_EveryEscapeMasked ==
    (step.level > 0 /\ err.msg # "child" /\ NoMarkerText(step.text)) =>
        \A rand \in RandomDraws : EscapesMasked(MaskEscaped(step.text, rand))

\* The markers that the handler h has made, in the order it made them
MarkersMade(h) ==
    [k \in 1..Len(h._current_placeholders) |-> h._current_placeholders[k].name]

\* Any two of the markers made fewer than apart calls apart are distinct
DistinctWithin(markers, apart) ==
    \A i \in 1..Len(markers) : \A j \in 1..Len(markers) :
        (i < j /\ j - i < apart) => markers[i] # markers[j]

\* C19 as stated: any two markers that one handler has made are distinct
\* strings, however many mask operations were performed on it.
C19_MarkersAllDistinct ==
    DistinctWithin(MarkersMade(handler), handler.made + 1)

\* C19 amended: any two markers that one handler has made fewer than
\* len(_SECURE_CHARS) calls of _get_new_placeholder apart are distinct
\* strings.
C19_MarkersDistinctWithinCycle ==
    DistinctWithin(MarkersMade(handler), Len(SECURE_CHARS))

\* The handler has made more markers than there are secure chars, by after
\* and by between, and every one of them is in its list.
C19_Witness ==
    /\ handler.made > Len(SECURE_CHARS)
    /\ Len(MarkersMade(handler)) = handler.made
    /\ \E k \in 1..handler.made :
           handler._current_placeholders[k].type = "after"
    /\ \E k \in 1..handler.made :
           handler._current_placeholders[k].type = "between"

\* C20: after a trim with the maximum length limit, the text that the
\* last render of convert takes (final_expr) is at most limit long, with or
\* without a stop string.
C20_TrimWithinLimit ==
    (step.converted /\ step.v.trimmed) =>
        Len(step.v.final_expr) <= step.v.limit

\* The token j is taken before the token i by the loops as the claim has
\* them: a deeper level first, and in a level the token more to the left
\* (the ids follow the order of the constructors, left to right)
TakenEarlier(tree, j, i) ==
    \/ tree[j].gen > tree[i].gen
    \/ tree[j].gen = tree[i].gen /\ j < i

\* The tokens that took a positional index and are taken before the token i
IndexedEarlier(tree, indices, i) ==
    { j \in 1..Len(indices) : indices[j] >= 0 /\ TakenEarlier(tree, j, i) }

\* C21: within a format call, a token whose expression is empty takes a
\* positional index, and the index a token took is the number of tokens
\* that took one and come before it, a deeper level first and left to
\* right in a level: the indices are 0, 1, 2, ..., each given once.
C21_IndicesInProcessingOrder ==
    /\ (step.parsed /\ step.expression = <<>>) =>
           step.consumed /\ taken[step.id] = step.index_before
    /\ \A i \in 1..Len(taken) :
           taken[i] >= 0 =>
               taken[i] = Cardinality(IndexedEarlier(nodes, taken, i))

\* What a step does to the table when the resource cannot be read
FailedLoadStep ==
    /\ (fobj'.called \/ err'.exc = "FileNotFoundError") => fdefs'.set
    /\ fdefs'.set => fdefs'.defs = <<>>
    /\ fdefs.set => fdefs' = fdefs
    /\ (fdefs.set /\ fobj'.called) =>
           fobj'.exc = "NameError" /\ fobj'.msg = "not_defined"
    /\ (~fdefs.set /\ fobj'.called) => fobj'.exc = "FileNotFoundError"
    /\ (fdefs.set /\ pc = "loop") =>
           /\ err'.exc # "FileNotFoundError"
           /\ step'.parsed => SplitExpression(step'.safe_string).specs = <<>>

\* C22: when the resource cannot be read, the table is set and empty from
\* the first load on: the FunctionObject that loads raises the error of
\* the read, every later FunctionObject raises the NameError of an unknown
\* function whatever its name, no token with functions is parsed, and the
\* table is not loaded again.
C22_FailedLoadLeavesEmptyTable == [][~file_ok => FailedLoadStep]_vars

\* After a failed load, a FunctionObject was made with a name that the
\* resource declares, and it raised the NameError of an unknown function.
C22_Witness ==
    /\ ~file_ok
    /\ fdefs.set
    /\ fdefs.defs = <<>>
    /\ fobj.called
    /\ fobj.given_name = Names.width
    /\ fobj.exc = "NameError"

\* The braces open after the first i characters of s, closed ones taken off
BraceDepth(s, i) ==
    StrCount(SubSeq(s, 1, i), "{") - StrCount(SubSeq(s, 1, i), "}")

\* Some '}' of s has no '{' open before it
UnmatchedClose(s) == \E i \in 1..Len(s) : BraceDepth(s, i) < 0

\* The places of the '}' that close a pair while no other brace is open
TopCloses(s) == { c \in 1..Len(s) : s[c] = "}" /\ BraceDepth(s, c) = 0 }

\* The place of the '{' of the pair that closes at c
TopOpen(s, c) ==
    CHOOSE o \in 1..c :
        /\ s[o] = "{"
        /\ BraceDepth(s, o) = 1
        /\ \A k \in o..(c - 1) : BraceDepth(s, k) >= 1

\* The places of the '{' that are never closed
Unclosed(s) ==
    { o \in 1..Len(s) :
          s[o] = "{" /\ \A k \in o..Len(s) : BraceDepth(s, k) >= BraceDepth(s, o) }

\* The children of the root are the pairs of s that close while no other
\* brace is open, left to right
TopPairsAreChilds(s, tree) ==
    /\ Len(tree[1].childs) = Cardinality(TopCloses(s))
    /\ \A c \in TopCloses(s) :
           tree[tree[1].childs[Cardinality({ d \in TopCloses(s) : d <= c })]].token
               = SubSeq(s, TopOpen(s, c) + 1, c - 1)

\* C23: a format call fails at the tokens only for a '}' with no '{' open
\* before it, never for a '{' that is not closed; the children of the root
\* are the pairs that close while no other brace is open, so none of them
\* lies after a '{' that is never closed; a root without children is
\* returned as it is.
C23_UnclosedBraceNoError ==
    (pc \in {"loop", "returned", "raised"}) =>
        /\ (nodes = <<>>) = UnmatchedClose(original)
        /\ (pc = "raised" /\ err.msg = "token") = (nodes = <<>>)
        /\ nodes # <<>> =>
               /\ TopPairsAreChilds(original, nodes)
               /\ \A o \in Unclosed(original) :
                      \A c \in TopCloses(original) : c < o
        /\ (pc = "returned" /\ nodes[1].childs = <<>>) => final = original

\* A call on a template with a pair, then a '{' that is never closed and a
\* pair after it, has returned: the first pair is the only child.
C23_Witness ==
    /\ pc = "returned"
    /\ Len(nodes) = 2
    /\ \E o \in Unclosed(original) :
           /\ \E c \in TopCloses(original) : c < o
           /\ \E k \in (o + 1)..Len(original) : original[k] = "}"
    /\ final # original

====
